---- MODULE Spec2Model ----
(***************************************************************************)
(* Deposit watcher of nano-rpc-proxy: the per-job state machine            *)
(* (handleJob), the wallet-RPC matcher (fetchViaRpc), the confirmation     *)
(* policy, the webhook backoff, the KV-backed Job / Status / Seen records  *)
(* and the intake handlers (create, callback).                             *)
(*                                                                         *)
(* Time is a discrete clock `now`; one unit stands for one configured      *)
(* backoff base period.  The KV store evicts a key when its TTL is over.   *)
(***************************************************************************)
EXTENDS Integers, Sequences, FiniteSets, Bags, TLC

\* ------------------------------------------------------------------------
\* Bounds of the model
\* ------------------------------------------------------------------------
MaxTime == 4
\* the steps of other handlers (a create request, a callback, the clock) that
\* fall between the awaits of one pass of handleJob
MaxInterrupts == 1
\* the create requests whose handlers are between two awaits at one time
MaxHandlers == 2
MaxHeight == 3
MaxPayments == 1
\* the atomic amounts and the decimals handed to the pure functions
MaxAtomic == 1200
MaxDecimals == 1
\* the ticks of the watcher's loop
MaxTicks == 2
\* the transfers in one answer of get_recent_txs_and_info2
MaxTransfers == 1
\* the characters in the body of a merchant's error answer
MaxBodyLength == 600

Tickers == {"zano"}
PaymentIds == {"p1"}
Keys == Tickers \X PaymentIds
Hashes == {"H1", "H2"}
Amounts == {100, 600}
\* the amount carried by a transaction is fixed on chain
AmountOf == [h \in Hashes |-> IF h = "H1" THEN 100 ELSE 600]
BlockHeights == {1}
WebhookResponses == {200, 500}

\* ------------------------------------------------------------------------
\* Configuration of the modelled deployment: the options of
\* loadWatcherConfig, with the durations in clock units.  The order of the
\* durations is the one of the defaults (backoff base < retry window and
\* Seen TTL < Job TTL).
\* ------------------------------------------------------------------------
DefaultConfig ==
  [tickers |-> Tickers,
   seenTtlSeconds |-> 2,
   jobTtlSeconds |-> 3,
   webhookBackoffBaseMs |-> 1,
   webhookBackoffFactor |-> 2,
   webhookBackoffMaxMs |-> 4,
   webhookBackoffJitter |-> FALSE,
   webhookMaxAttempts |-> 0,
   webhookMaxRetryWindowMs |-> 2,
   statusTtlSeconds |-> 0,
   errorBackoffMs |-> 2,
   minConfirmations |-> [t \in Tickers |-> 3],
   decimals |-> [t \in Tickers |-> 1],
   assetIds |-> [t \in Tickers |-> ""],
   consolidation |-> [t \in Tickers |->
                        [enabled |-> FALSE, address |-> "", feeAtomic |-> 100,
                         minConfirmations |-> 2]]]

\* Math.random() is drawn from {0/RandDen, ..., (RandDen-1)/RandDen}
RandDen == 2

NoVal == -1

Max(a, b) == IF a >= b THEN a ELSE b
Min(a, b) == IF a <= b THEN a ELSE b

RECURSIVE Pow(_, _)
Pow(b, e) == IF e <= 0 THEN 1 ELSE b * Pow(b, e - 1)

\* ------------------------------------------------------------------------
\* Records
\* ------------------------------------------------------------------------
NoJob ==
  [exists |-> FALSE, address |-> "", txId |-> "", paymentId |-> "",
   minConf |-> 0, dynamicMinConfApplied |-> FALSE, webhookSent |-> FALSE,
   webhookAttempts |-> 0, webhookFirstAttemptAt |-> 0,
   webhookLastAttemptAt |-> 0, webhookNextAttemptAt |-> 0,
   webhookLastError |-> "", expiresAt |-> 0,
   consolidationAttempted |-> FALSE, consolidationTxId |-> "",
   consolidationError |-> ""]

NoStatus ==
  [status |-> "NONE", confirmations |-> 0, requiredConfirmations |-> NoVal,
   hash |-> "", paymentId |-> "", paidAmountAtomic |-> NoVal,
   effectiveAmountAtomic |-> NoVal, feeAtomic |-> NoVal,
   webhookError |-> "", expiresAt |-> 0]

NoDeposit == [hash |-> "", amountAtomic |-> 0, confirmations |-> 0]

NoFault == [kind |-> "none", at |-> ""]

\* ------------------------------------------------------------------------
\* Pure functions
\* ------------------------------------------------------------------------

\* computeWebhookBackoffDelayMs: rnd / RandDen stands for Math.random()
computeWebhookBackoffDelayMs(attempts, cfg, rnd) ==
  LET raw   == cfg.webhookBackoffBaseMs
               * Pow(cfg.webhookBackoffFactor, Max(0, attempts))
      delay == Min(raw, cfg.webhookBackoffMaxMs)
      jit   == IF cfg.webhookBackoffJitter THEN (rnd * delay) \div RandDen ELSE delay
  IN Max(0, jit)

\* a computeDynamicMinConfirmations whose first tier includes its breakpoint
dynamicMinConfInclusive(amountAtomic, decimals) ==
  LET safeDecimals == IF decimals >= 0 THEN decimals ELSE 12
      scale        == Pow(10, safeDecimals)
  IN IF amountAtomic <= 50 * scale THEN 1
     ELSE IF amountAtomic < 100 * scale THEN 3
     ELSE 6

\* computeDynamicMinConfirmations
computeDynamicMinConfirmations(amountAtomic, decimals) ==
  LET safeDecimals == IF decimals >= 0 THEN decimals ELSE 12
      scale        == Pow(10, safeDecimals)
      threshold50  == 50 * scale
      threshold100 == 100 * scale
  IN IF amountAtomic < threshold50 THEN 1
     ELSE IF amountAtomic < threshold100 THEN 3
     ELSE 6

\* ------------------------------------------------------------------------
\* formatAtomicAmount (deposits.js).  A string is the sequence of its
\* characters; a value is absent (undefined, null, an empty or non-numeric
\* string), a number that is not finite, or an integer (a bigint, a finite
\* number, a numeric string).
\* ------------------------------------------------------------------------
DigitChars == <<"0", "1", "2", "3", "4", "5", "6", "7", "8", "9">>

\* the decimal digits of n >= 0
RECURSIVE Digits(_)
Digits(n) ==
  IF n < 10 THEN <<DigitChars[n + 1]>>
  ELSE Append(Digits(n \div 10), DigitChars[(n % 10) + 1])

\* BigInt.prototype.toString
BigIntToString(n) == IF n < 0 THEN <<"-">> \o Digits(-n) ELSE Digits(n)

\* BigInt division truncates towards zero; the remainder has the sign of the
\* dividend
BigIntDiv(a, b) == IF a >= 0 THEN a \div b ELSE -((-a) \div b)
BigIntRem(a, b) == a - b * BigIntDiv(a, b)

\* String.prototype.padStart(len, '0')
RECURSIVE padStart(_, _)
padStart(str, len) == IF Len(str) >= len THEN str ELSE padStart(<<"0">> \o str, len)

\* String.prototype.replace(/0+$/, '')
RECURSIVE trimTrailingZeros(_)
trimTrailingZeros(str) ==
  IF str # <<>> /\ str[Len(str)] = "0"
  THEN trimTrailingZeros(SubSeq(str, 1, Len(str) - 1))
  ELSE str

NullString == [isNull |-> TRUE, text |-> <<>>]
StringOf(text) == [isNull |-> FALSE, text |-> text]

\* toBigInt: null unless the value is an integer
toBigInt(value) ==
  IF value.kind = "integer" THEN [isNull |-> FALSE, n |-> value.n]
  ELSE [isNull |-> TRUE, n |-> 0]

\* formatAtomicAmount
formatAtomicAmount(value, decimals) ==
  LET atomic == toBigInt(value)
      scale == Pow(10, decimals)
      integer == BigIntDiv(atomic.n, scale)
      fraction == BigIntRem(atomic.n, scale)
      fractionStr == trimTrailingZeros(padStart(BigIntToString(fraction), decimals))
  IN IF atomic.isNull THEN NullString
     ELSE IF fraction = 0 THEN StringOf(BigIntToString(integer))
     ELSE StringOf(BigIntToString(integer) \o <<".">> \o fractionStr)

\* the length limit of a stored error text
WebhookErrorMaxLen == 500

\* a truncateText that keeps the whole text
truncateTextKept(length, maxLen) == length

\* truncateText, on the length of the text
truncateText(length, maxLen) == IF length <= maxLen THEN length ELSE maxLen

\* the body of the merchant's answer: a 500 carries MaxBodyLength characters
ResponseBodyLength(response) == IF response = 500 THEN MaxBodyLength ELSE 0

\* the length of `HTTP ${status}: ${body}`, and of the message of a request
\* error ('request error')
HttpErrorLength(response) == 10 + ResponseBodyLength(response)
RequestErrorLength == 13

\* a sendWebhook that takes status 200 for a failure
sendWebhookAbove200(response) ==
  IF response > 200 /\ response < 300
  THEN [ok |-> TRUE, error |-> "", statusCode |-> response, errorLength |-> 0]
  ELSE IF response = 0
  THEN [ok |-> FALSE, error |-> "request error", statusCode |-> NoVal,
        errorLength |-> truncateText(RequestErrorLength, WebhookErrorMaxLen)]
  ELSE [ok |-> FALSE, error |-> "HTTP error", statusCode |-> response,
        errorLength |-> truncateText(HttpErrorLength(response), WebhookErrorMaxLen)]

\* sendWebhook: ok iff the HTTP status is in [200, 300); 0 stands for a
\* network error (no response)
sendWebhook(response) ==
  IF response >= 200 /\ response < 300
  THEN [ok |-> TRUE, error |-> "", statusCode |-> response, errorLength |-> 0]
  ELSE IF response = 0
  THEN [ok |-> FALSE, error |-> "request error", statusCode |-> NoVal,
        errorLength |-> truncateText(RequestErrorLength, WebhookErrorMaxLen)]
  ELSE [ok |-> FALSE, error |-> "HTTP error", statusCode |-> response,
        errorLength |-> truncateText(HttpErrorLength(response), WebhookErrorMaxLen)]

\* a byHash that keeps every entry
AppendByHash(byHash, entry) == Append(byHash, entry)

\* byHash.set(entry.hash, entry) when absent or strictly more confirmations
UpsertByHash(byHash, entry) ==
  IF \E i \in 1..Len(byHash) : byHash[i].hash = entry.hash
  THEN LET i == CHOOSE j \in 1..Len(byHash) : byHash[j].hash = entry.hash
       IN IF entry.confirmations > byHash[i].confirmations
          THEN [byHash EXCEPT ![i] = entry]
          ELSE byHash
  ELSE Append(byHash, entry)

\* confirmations that leave out the block the payment was mined in
paymentConfirmationsExclusive(p, currentHeight) ==
  IF p.block_height > 0 /\ currentHeight > 0
  THEN Max(currentHeight - p.block_height, 0)
  ELSE p.confirmations

\* confirmations of one get_payments entry
paymentConfirmations(p, currentHeight) ==
  IF p.block_height > 0 /\ currentHeight > 0
  THEN Max(currentHeight - p.block_height + 1, 0)
  ELSE p.confirmations

RECURSIVE paymentsByHash(_, _, _)
paymentsByHash(payments, currentHeight, byHash) ==
  IF payments = <<>> THEN byHash
  ELSE LET p == Head(payments)
           entry == [hash |-> p.tx_hash, amountAtomic |-> p.amount,
                     confirmations |-> paymentConfirmations(p, currentHeight)]
       IN paymentsByHash(Tail(payments), currentHeight, UpsertByHash(byHash, entry))

\* a fallback that takes every income subtransfer, whatever its asset
RECURSIVE subtransfersOfAnyAsset(_, _, _, _, _)
subtransfersOfAnyAsset(subs, txHash, confirmations, expectedAssetId, byHash) ==
  IF subs = <<>> THEN byHash
  ELSE LET st == Head(subs)
           skip == ~st.is_income \/ txHash = ""
           entry == [hash |-> txHash, amountAtomic |-> st.amount,
                     confirmations |-> confirmations]
       IN subtransfersOfAnyAsset(Tail(subs), txHash, confirmations, expectedAssetId,
                                 IF skip THEN byHash ELSE UpsertByHash(byHash, entry))

\* lines 491-516: the income subtransfers of the expected asset
RECURSIVE subtransfersByHash(_, _, _, _, _)
subtransfersByHash(subs, txHash, confirmations, expectedAssetId, byHash) ==
  IF subs = <<>> THEN byHash
  ELSE LET st == Head(subs)
           skip == \/ ~st.is_income
                   \/ (expectedAssetId # "" /\ st.asset_id # expectedAssetId)
                   \/ (expectedAssetId = "" /\ st.asset_id # "")
                   \/ txHash = ""
           entry == [hash |-> txHash, amountAtomic |-> st.amount,
                     confirmations |-> confirmations]
       IN subtransfersByHash(Tail(subs), txHash, confirmations, expectedAssetId,
                             IF skip THEN byHash ELSE UpsertByHash(byHash, entry))

RECURSIVE transfersByHash(_, _, _, _, _)
transfersByHash(transfers, paymentId, currentHeight, expectedAssetId, byHash) ==
  IF transfers = <<>> THEN byHash
  ELSE LET tx == Head(transfers)
           confirmations ==
             IF tx.height > 0 /\ currentHeight > 0
             THEN Max(currentHeight - tx.height + 1, 0) ELSE 0
           next ==
             IF tx.payment_id # paymentId THEN byHash
             ELSE subtransfersByHash(tx.subtransfers, tx.tx_hash, confirmations,
                                     expectedAssetId, byHash)
       IN transfersByHash(Tail(transfers), paymentId, currentHeight,
                          expectedAssetId, next)

\* fetchViaRpc: get_wallet_info, then get_payments (base coin only), then the
\* get_recent_txs_and_info2 fallback when nothing matched
fetchViaRpc(rpc, paymentId, expectedAssetId) ==
  IF paymentId = "" THEN [raise |-> FALSE, deposits |-> <<>>, calls |-> <<>>]
  ELSE IF rpc.infoError
  THEN [raise |-> TRUE, deposits |-> <<>>, calls |-> <<"get_wallet_info">>]
  ELSE IF expectedAssetId = "" /\ rpc.paymentsError
  THEN [raise |-> TRUE, deposits |-> <<>>,
        calls |-> <<"get_wallet_info", "get_payments">>]
  ELSE
    LET payments == IF expectedAssetId = "" THEN rpc.payments ELSE <<>>
        byHash0  == paymentsByHash(payments, rpc.current_height, <<>>)
        byHash   == IF byHash0 = <<>> /\ ~rpc.recentError
                    THEN transfersByHash(rpc.transfers, paymentId,
                                         rpc.current_height, expectedAssetId, <<>>)
                    ELSE byHash0
        calls    == <<"get_wallet_info">>
                    \o (IF expectedAssetId = "" THEN <<"get_payments">> ELSE <<>>)
                    \o (IF byHash0 = <<>> THEN <<"get_recent_txs_and_info2">> ELSE <<>>)
    IN [raise |-> FALSE, deposits |-> byHash, calls |-> calls]

\* a fetchDeposits that lets the failure of the status API through
fetchDepositsStrict(rpc, paymentId, expectedAssetId) ==
  IF rpc.statusApi = "error"
  THEN [raise |-> TRUE, deposits |-> <<>>, calls |-> <<"status_api">>]
  ELSE IF rpc.statusApi = "ok" /\ rpc.statusDeposits # <<>>
  THEN [raise |-> FALSE, deposits |-> rpc.statusDeposits, calls |-> <<"status_api">>]
  ELSE LET r == fetchViaRpc(rpc, paymentId, expectedAssetId)
       IN [r EXCEPT !.calls = (IF rpc.statusApi = "off" THEN <<>>
                               ELSE <<"status_api">>) \o @]

\* lines 558-575: fetchDeposits.  statusApi is "off" when zanoStatusUrl is not
\* configured, "error" when fetchViaStatusApi throws (HTTP status >= 400), "ok"
\* when it answers with statusDeposits; an error or an empty answer falls back
\* to fetchViaRpc
fetchDeposits(rpc, paymentId, expectedAssetId) ==
  IF rpc.statusApi = "ok" /\ rpc.statusDeposits # <<>>
  THEN [raise |-> FALSE, deposits |-> rpc.statusDeposits, calls |-> <<"status_api">>]
  ELSE LET r == fetchViaRpc(rpc, paymentId, expectedAssetId)
       IN [r EXCEPT !.calls = (IF rpc.statusApi = "off" THEN <<>>
                               ELSE <<"status_api">>) \o @]

\* the calls of a pass that were answered with HTTP >= 400 or a JSON-RPC error
failedCalls(rpc, calls) ==
  {m \in {calls[i] : i \in 1..Len(calls)} :
     \/ m = "status_api" /\ rpc.statusApi = "error"
     \/ m = "get_wallet_info" /\ rpc.infoError
     \/ m = "get_payments" /\ rpc.paymentsError
     \/ m = "get_recent_txs_and_info2" /\ rpc.recentError}

\* deposits.slice().sort((a, b) => b.confirmations - a.confirmations)[0]:
\* the first entry with the maximum confirmations (the sort is stable)
BestOf(deposits) ==
  IF deposits = <<>> THEN NoDeposit
  ELSE LET m == CHOOSE c \in {deposits[i].confirmations : i \in 1..Len(deposits)} :
                  \A i \in 1..Len(deposits) : deposits[i].confirmations <= c
           i == CHOOSE j \in 1..Len(deposits) :
                  /\ deposits[j].confirmations = m
                  /\ \A l \in 1..(j - 1) : deposits[l].confirmations # m
       IN deposits[i]

\* a filter that lets every observation through
FilterEvery(deposits, minConfirmations) == deposits

\* deposits.filter((d) => d.confirmations >= minConfirmations)
RECURSIVE FilterConfirmed(_, _)
FilterConfirmed(deposits, minConfirmations) ==
  IF deposits = <<>> THEN <<>>
  ELSE IF Head(deposits).confirmations >= minConfirmations
       THEN <<Head(deposits)>> \o FilterConfirmed(Tail(deposits), minConfirmations)
       ELSE FilterConfirmed(Tail(deposits), minConfirmations)


\* ------------------------------------------------------------------------
\* handleJob.  A pass is computed on a context record: the KV records it
\* touches (job, status, seen), the clock of the moment, its local
\* variables, and the trace `ops` of the operations it has performed.
\* handleJob is an async function: at every await it hands the event loop
\* back, and what was awaited takes effect on the KV as it is at that
\* moment.  A run of handleJob on a context performs at most `budget`
\* awaits: the awaits named in `awaited` were performed by an earlier run and
\* are passed over (what they returned is held in the locals), and at the
\* first await beyond the budget the run pauses with the name of that await
\* in `next`.  `fault` names at most one place where the pass is interrupted
\* ("stop": the process stops right before that operation, or a call that
\* stands in no try block throws) or where a call that stands in a try block
\* throws without reaching the KV ("fail"): the catch block runs and the pass
\* goes on.
\* ------------------------------------------------------------------------
\* the awaits of a run that performs the whole of handleJob
WholePass == 99

Stops(c, name) == c.fault.kind = "stop" /\ c.fault.at = name
Fails(c, name) == c.fault.kind = "fail" /\ c.fault.at = name
Passed(c, name) == c.done \/ name \in c.awaited
Pause(c, name) == [c EXCEPT !.done = TRUE, !.paused = TRUE, !.next = name]
Await(c, name) == [c EXCEPT !.awaited = @ \cup {name}, !.budget = @ - 1]
Exec(c, name) == [Await(c, name) EXCEPT !.ops = Append(@, name)]
Interrupt(c) == [c EXCEPT !.done = TRUE, !.raised = "kv"]
Return(c) == IF c.done THEN c ELSE [c EXCEPT !.done = TRUE]

\* a step of handleJob that is no await, noted once in the trace
Note(c, name) ==
  IF \E i \in 1..Len(c.ops) : c.ops[i] = name THEN c
  ELSE [c EXCEPT !.ops = Append(@, name)]

\* an awaited call outside try/catch whose answer is an input of the pass
\* (the wallet, the merchant)
Call(c, name) ==
  IF Passed(c, name) THEN c
  ELSE IF c.budget = 0 THEN Pause(c, name)
  ELSE IF Stops(c, name) THEN Interrupt(c)
  ELSE Exec(c, name)

\* an awaited read of the KV: the local `field` holds what it returned
Read(c, name, field, value) ==
  IF Passed(c, name) THEN c
  ELSE IF c.budget = 0 THEN Pause(c, name)
  ELSE IF Stops(c, name) THEN Interrupt(c)
  ELSE [Exec(c, name) EXCEPT ![field] = value]

\* deleteDepositJob
deleteDepositJob(c, name) ==
  IF Passed(c, name) THEN c
  ELSE IF c.budget = 0 THEN Pause(c, name)
  ELSE IF Stops(c, name) THEN Interrupt(c)
  ELSE [Exec(c, name) EXCEPT !.job = NoJob]

\* SET key value EX ttlSeconds: the time at which the KV evicts the key; no
\* EX is sent for ttlSeconds 0, and 0 stands for a key without TTL
ExpiryOf(time, ttlSeconds) == IF ttlSeconds > 0 THEN time + ttlSeconds ELSE 0

\* markSeen: kv.set(seenKey, '1', {ttlSeconds})
markSeen(c, name, hash) ==
  IF Passed(c, name) THEN c
  ELSE IF c.budget = 0 THEN Pause(c, name)
  ELSE IF Stops(c, name) THEN Interrupt(c)
  ELSE [Exec(c, name) EXCEPT !.seen[hash] = c.clock + c.config.seenTtlSeconds]

\* a Seen lookup that never finds the entry
isSeenNever(c, hash) == FALSE

\* isSeen: kv.exists(seenKey)
isSeen(c, hash) == c.seen[hash] > 0

\* saveStatus inside try/catch: kv.setJson(key, payload, {ttlSeconds}); a
\* failed write is logged and skipped
saveStatus(c, name, st) ==
  IF Passed(c, name) THEN c
  ELSE IF c.budget = 0 THEN Pause(c, name)
  ELSE IF Stops(c, name) THEN Interrupt(c)
  ELSE IF Fails(c, name) THEN Await(c, name)
  ELSE [Exec(c, name) EXCEPT
          !.status = [st EXCEPT !.expiresAt =
                                   ExpiryOf(c.clock, c.config.statusTtlSeconds)]]

\* kv.hset(key, fields) inside try/catch; HSET on a key that is absent makes
\* a hash of the written fields alone, without TTL
hsetSwallowed(c, name, newJob) ==
  IF Passed(c, name) THEN c
  ELSE IF c.budget = 0 THEN Pause(c, name)
  ELSE IF Stops(c, name) THEN Interrupt(c)
  ELSE IF Fails(c, name) THEN Await(c, name)
  ELSE [Exec(c, name) EXCEPT !.job = [newJob EXCEPT !.exists = TRUE]]

\* an awaited call that threw into its catch block: it was awaited and is no
\* operation of the trace
Threw(c, name) ==
  name \in c.awaited /\ \A i \in 1..Len(c.ops) : c.ops[i] # name

\* kv.hset(key, fields) outside try/catch
hsetThrowing(c, name, newJob) ==
  IF Passed(c, name) THEN c
  ELSE IF c.budget = 0 THEN Pause(c, name)
  ELSE IF Stops(c, name) THEN Interrupt(c)
  ELSE [Exec(c, name) EXCEPT !.job = [newJob EXCEPT !.exists = TRUE]]

\* readStatus inside try/catch: a failed read yields null
readStatusSwallowed(c, name) ==
  IF Fails(c, name) THEN NoStatus ELSE c.status

StatusRecord(c, statusName, dep, paid, err) ==
  [NoStatus EXCEPT
     !.status = statusName,
     !.confirmations = dep.confirmations,
     !.requiredConfirmations = c.minConfirmations,
     !.hash = dep.hash,
     !.paymentId = IF c.loaded.paymentId # "" THEN c.loaded.paymentId
                   ELSE c.loaded.txId,
     !.paidAmountAtomic = paid,
     !.effectiveAmountAtomic = paid,
     !.webhookError = err]

\* the webhookSent latch is never honoured
webhookNeverSent(job) == FALSE

\* line 791: String(job.webhookSent || '').toLowerCase() === 'true'
webhookAlreadySent(job) == job.webhookSent

\* the dynamicMinConfApplied latch is never honoured
dynamicNeverApplied(job) == FALSE

\* lines 716-717: String(job.dynamicMinConfApplied || '').toLowerCase() === 'true'
dynamicAlreadyApplied(job) == job.dynamicMinConfApplied

\* getDepositJob: kv.hgetall(key), the fields of the hash (its TTL is none
\* of them)
getDepositJob(job) == [job EXCEPT !.expiresAt = 0]

\* a load that returns from a Job without address or txId and keeps it
StageLoadKeeping(c) ==
  IF c.done THEN c
  ELSE LET c0 == Read(c, "get", "loaded", getDepositJob(c.job))
           c1 == [c0 EXCEPT !.minConfirmations = c0.loaded.minConf,
                            !.paymentId = c0.loaded.paymentId]
       IN IF c0.done THEN c0
          ELSE IF ~c1.loaded.exists \/ c1.loaded.address = "" \/ c1.loaded.txId = ""
          THEN Return(c1)
          ELSE c1

\* lines 617-627: load the Job; a Job without address or txId is deleted
StageLoad(c) ==
  IF c.done THEN c
  ELSE LET c0 == Read(c, "get", "loaded", getDepositJob(c.job))
           c1 == [c0 EXCEPT !.minConfirmations = c0.loaded.minConf,
                            !.paymentId = c0.loaded.paymentId]
       IN IF c0.done THEN c0
          ELSE IF ~c1.loaded.exists \/ c1.loaded.address = "" \/ c1.loaded.txId = ""
          THEN Return(deleteDepositJob(c1, "del.malformed"))
          ELSE c1

\* lines 626-645: backfill paymentId from the Status record
StageBackfill(c) ==
  IF c.done \/ c.paymentId # "" THEN c
  ELSE LET c0 == Read(c, "readStatus.backfill", "statusPaymentId",
                      readStatusSwallowed(c, "readStatus.backfill").paymentId)
           c1 == [c0 EXCEPT !.paymentId = c0.statusPaymentId]
       IN IF c0.done THEN c0
          ELSE IF c1.paymentId # ""
          THEN hsetSwallowed(c1, "hset.paymentId",
                             [c1.job EXCEPT !.paymentId = c1.paymentId])
          ELSE c1

\* a fetch that deletes the Job for which nothing was observed
StageFetchDeleting(c) ==
  IF c.done THEN c
  ELSE LET c0 == Call(c, "fetch")
           r  == fetchDeposits(c.rpc, c.paymentId, c.expectedAssetId)
           c1 == [c0 EXCEPT !.calls = r.calls]
       IN IF c0.done THEN c0
          ELSE IF r.raise THEN [c1 EXCEPT !.done = TRUE, !.raised = "rpc"]
          ELSE IF r.deposits = <<>> THEN Return(deleteDepositJob(c1, "del"))
          ELSE [c1 EXCEPT !.deposits = r.deposits, !.best = BestOf(r.deposits)]

\* lines 663-671: fetchDeposits, best observation
StageFetch(c) ==
  IF c.done THEN c
  ELSE LET c0 == Call(c, "fetch")
           r  == fetchDeposits(c.rpc, c.paymentId, c.expectedAssetId)
           c1 == [c0 EXCEPT !.calls = r.calls]
       IN IF c0.done THEN c0
          ELSE IF r.raise THEN [c1 EXCEPT !.done = TRUE, !.raised = "rpc"]
          ELSE IF r.deposits = <<>> THEN Return(c1)
          ELSE [c1 EXCEPT !.deposits = r.deposits, !.best = BestOf(r.deposits)]

\* lines 698-741: dynamic confirmation policy
StageDynamic(c) ==
  IF c.done THEN c
  ELSE LET dynamicMinConfirmations ==
             computeDynamicMinConfirmations(c.best.amountAtomic,
                                            c.config.decimals[c.ticker])
           existingStatus == readStatusSwallowed(c, "readStatus.dynamic")
           c1 == Read(c, "readStatus.dynamic", "statusValue",
                      IF existingStatus.status = "NONE" THEN "PENDING"
                      ELSE existingStatus.status)
       IN IF c1.done THEN c1
          ELSE IF ~dynamicAlreadyApplied(c.loaded) /\ c1.statusValue # "COMPLETED"
                  /\ dynamicMinConfirmations # c.minConfirmations
          THEN hsetSwallowed(
                 [c1 EXCEPT !.minConfirmations = dynamicMinConfirmations],
                 "hset.minConf",
                 [c1.job EXCEPT !.minConf = dynamicMinConfirmations,
                                !.dynamicMinConfApplied = TRUE])
          ELSE c1

\* a threshold stage that takes the best observation whatever its confirmations
StageThresholdAny(c) ==
  IF c.done THEN c
  ELSE LET confirmed == BestOf(c.deposits)
       IN IF confirmed.hash = ""
          THEN IF c.best.hash # ""
               THEN Return(saveStatus(c, "status.below",
                                      StatusRecord(c, "CONFIRMING", c.best, NoVal, "")))
               ELSE Return(c)
          ELSE [c EXCEPT !.confirmed = confirmed]

\* lines 743-782: confirmed observation, or CONFIRMING status and return
StageThreshold(c) ==
  IF c.done THEN c
  ELSE LET confirmed == BestOf(FilterConfirmed(c.deposits, c.minConfirmations))
       IN IF confirmed.hash = ""
          THEN IF c.best.hash # ""
               THEN Return(saveStatus(c, "status.below",
                                      StatusRecord(c, "CONFIRMING", c.best, NoVal, "")))
               ELSE Return(c)
          ELSE [c EXCEPT !.confirmed = confirmed]

\* lines 796-804: Seen guard
StageSeenGuard(c) ==
  IF c.done THEN c
  ELSE LET c1 == Read(c, "isSeen", "seenHit", isSeen(c, c.confirmed.hash))
       IN IF c1.done THEN c1
          ELSE IF c1.seenHit
          THEN Return(deleteDepositJob(c1, "del.seen"))
          ELSE c1

\* lines 806-822: webhook payload
StagePayload(c) ==
  IF c.done THEN c
  ELSE [Note(c, "payload") EXCEPT
          !.payload = [paymentId |-> c.loaded.txId,
                       hash |-> c.confirmed.hash,
                       amountAtomic |-> c.confirmed.amountAtomic,
                       confirmations |-> c.confirmed.confirmations]]

\* a retry window that never ends
retryWindowNeverExceeded(webhookFirstAttemptAt, time, maxRetryWindowMs) == FALSE

\* line 853: the retry window measured from the first attempt is over
retryWindowExceeded(webhookFirstAttemptAt, time, maxRetryWindowMs) ==
  /\ maxRetryWindowMs > 0
  /\ webhookFirstAttemptAt # 0
  /\ time - webhookFirstAttemptAt > maxRetryWindowMs

\* an attempt ceiling that is never reached
maxAttemptsNeverReached(webhookAttempts, maxAttempts) == FALSE

\* line 894: the attempt ceiling is set and reached
maxAttemptsReached(webhookAttempts, maxAttempts) ==
  maxAttempts > 0 /\ webhookAttempts >= maxAttempts

\* a backoff deadline that never holds a pass back
backoffWindowNeverOpen(webhookNextAttemptAt, time) == FALSE

\* line 904: the backoff deadline of the last failed attempt is in the future
inBackoffWindow(webhookNextAttemptAt, time) ==
  webhookNextAttemptAt # 0 /\ time < webhookNextAttemptAt

\* lines 824-913: CONFIRMING refresh, retry window, max attempts, backoff.
\* The local `now` is read from the clock when the refresh has settled
\* (line 849)
StageBudget(c) ==
  IF c.done \/ webhookAlreadySent(c.loaded) THEN c
  ELSE LET webhookMaxAttempts == c.config.webhookMaxAttempts
           webhookMaxRetryWindowMs == c.config.webhookMaxRetryWindowMs
           c0 == saveStatus(c, "status.pre",
                            StatusRecord(c, "CONFIRMING", c.confirmed, NoVal, ""))
           c1 == IF "status.pre" \in c.awaited THEN c0
                 ELSE [c0 EXCEPT !.now = c0.clock]
           webhookAttempts == c.loaded.webhookAttempts
           webhookNextAttemptAt == c.loaded.webhookNextAttemptAt
           webhookFirstAttemptAt == c.loaded.webhookFirstAttemptAt
           lastError == IF c.loaded.webhookLastError # ""
                        THEN c.loaded.webhookLastError
                        ELSE "webhook retry window exceeded"
       IN IF c0.done THEN c0
          ELSE IF retryWindowExceeded(webhookFirstAttemptAt, c1.now,
                                      webhookMaxRetryWindowMs)
          THEN Return(
                 deleteDepositJob(
                   markSeen(
                     saveStatus(c1, "status.failed",
                                StatusRecord(c, "FAILED", c.confirmed, NoVal, lastError)),
                     "markSeen.failed", c.confirmed.hash),
                   "del.failed"))
          ELSE IF maxAttemptsReached(webhookAttempts, webhookMaxAttempts)
          THEN Return([c1 EXCEPT !.webhookOk = FALSE])
          ELSE IF inBackoffWindow(webhookNextAttemptAt, c1.now)
          THEN Return([c1 EXCEPT !.webhookOk = FALSE])
          ELSE c1

\* lines 914-1045: dispatch, then COMPLETED + webhookSent, or retry state
StageDispatch(c) ==
  IF c.done \/ webhookAlreadySent(c.loaded) THEN c
  ELSE LET c0 == Call(c, "send")
           webhookResult == sendWebhook(c.response)
           \* line 989: the length of the stored error; 'webhook attempt
           \* failed' has 22 characters
           lastErrorLength ==
             truncateText(IF webhookResult.error # "" THEN webhookResult.errorLength
                          ELSE 22, WebhookErrorMaxLen)
           c1 == [c0 EXCEPT !.webhookOk = webhookResult.ok,
                            !.dispatched = TRUE,
                            !.errorLength = IF webhookResult.ok THEN 0
                                            ELSE lastErrorLength]
           attempts == c.loaded.webhookAttempts + 1
           delayMs == computeWebhookBackoffDelayMs(attempts, c.config, c.rnd)
           firstAttemptAt == IF c.loaded.webhookFirstAttemptAt # 0
                             THEN c.loaded.webhookFirstAttemptAt ELSE c.now
           lastError == IF webhookResult.error # "" THEN webhookResult.error
                        ELSE "webhook attempt failed"
       IN IF c0.done THEN c0
          ELSE IF webhookResult.ok
          THEN LET c2 == saveStatus(c1, "status.completed",
                           StatusRecord(c, "COMPLETED", c.confirmed,
                                        c.confirmed.amountAtomic, ""))
               IN hsetThrowing(c2, "hset.sent",
                    [c2.job EXCEPT !.webhookSent = TRUE,
                                   !.webhookAttempts = 0,
                                   !.webhookNextAttemptAt = 0,
                                   !.webhookLastAttemptAt = 0,
                                   !.webhookLastError = ""])
          ELSE LET c2 == hsetSwallowed(c1, "hset.retry",
                           [c1.job EXCEPT !.webhookAttempts = attempts,
                                          !.webhookFirstAttemptAt = firstAttemptAt,
                                          !.webhookLastAttemptAt = c.now,
                                          !.webhookNextAttemptAt = c.now + delayMs,
                                          !.webhookLastError = lastError])
               IN saveStatus(c2, "status.post",
                             StatusRecord(c, "CONFIRMING", c.confirmed, NoVal, ""))

\* a finish that deletes the Job before it marks the transaction Seen
StageFinishDeleteFirst(c) ==
  IF c.done THEN c
  ELSE IF c.webhookOk
       THEN Return(markSeen(deleteDepositJob(c, "del"), "markSeen", c.confirmed.hash))
       ELSE Return(c)

\* lines 1047-1050: mark Seen and delete the Job when the webhook is done
StageFinish(c) ==
  IF c.done THEN c
  ELSE IF c.webhookOk
       THEN Return(deleteDepositJob(markSeen(c, "markSeen", c.confirmed.hash), "del"))
       ELSE Return(c)

\* the wallet before it has answered
NoRpc ==
  [infoError |-> FALSE, paymentsError |-> FALSE, recentError |-> FALSE,
   statusApi |-> "off", statusDeposits |-> <<>>, current_height |-> 0,
   payments |-> <<>>, transfers |-> <<>>]

\* the context of a pass that has not run yet; it may perform `budget` awaits
jobContext(job, status, seenMap, ticker, cfg, time, rpc, response, rnd, fault) ==
  [job |-> job, status |-> status, seen |-> seenMap, clock |-> time, now |-> 0,
   ticker |-> ticker, config |-> cfg,
   rpc |-> rpc, response |-> response, rnd |-> rnd, fault |-> fault,
   expectedAssetId |-> cfg.assetIds[ticker],
   awaited |-> {}, budget |-> WholePass, paused |-> FALSE, next |-> "",
   ops |-> <<>>, calls |-> <<>>, done |-> FALSE, raised |-> "",
   loaded |-> NoJob, statusPaymentId |-> "", statusValue |-> "",
   seenHit |-> FALSE, minConfirmations |-> 0, paymentId |-> "",
   deposits |-> <<>>, best |-> NoDeposit, confirmed |-> NoDeposit,
   payload |-> [paymentId |-> "", hash |-> "", amountAtomic |-> 0,
                confirmations |-> 0],
   webhookOk |-> TRUE, dispatched |-> FALSE, errorLength |-> 0]

\* lines 616-913: handleJob up to the request to the merchant
handleJobUntilSend(c0) ==
  StageBudget(StagePayload(StageSeenGuard(
    StageThreshold(StageDynamic(StageFetch(StageBackfill(StageLoad(c0))))))))

\* lines 914-1051: handleJob from the request to the merchant on
handleJobFromSend(c) == StageFinish(StageDispatch(c))

\* the whole of handleJob with no other handler in between
handleJob(job, status, seenMap, ticker, cfg, time, rpc, response, rnd, fault) ==
  handleJobFromSend(handleJobUntilSend(
    jobContext(job, status, seenMap, ticker, cfg, time, rpc, response, rnd, fault)))

\* the pass c goes on for one await: on the KV as it is now and at the clock
\* of now, with the answer that the awaited call gets
resumeJob(c, job, status, seenMap, time, rpc, response, rnd, fault) ==
  handleJobFromSend(handleJobUntilSend(
    [c EXCEPT !.job = job, !.status = status, !.seen = seenMap, !.clock = time,
              !.rpc = IF "fetch" \in c.awaited THEN @ ELSE rpc,
              !.response = IF "send" \in c.awaited THEN @ ELSE response,
              !.rnd = IF "send" \in c.awaited THEN @ ELSE rnd,
              !.fault = fault, !.budget = 1, !.done = FALSE, !.paused = FALSE,
              !.next = ""]))


\* ------------------------------------------------------------------------
\* The watcher with consolidation (src/watcher.js): the same pass without
\* the dynamic policy and the retry budget, with one consolidation transfer
\* per Job
\* ------------------------------------------------------------------------
NoTransferResult == [isNull |-> TRUE, tx_hash |-> ""]

NoConsolidationPayload ==
  [paymentId |-> "", hash |-> "", amountAtomic |-> 0, paidAmountAtomic |-> 0,
   effectiveAmountAtomic |-> 0, feeAtomic |-> NoVal, confirmations |-> 0,
   consolidationTxId |-> "", consolidationError |-> ""]

\* watcher.js lines 584-602: one entry per hash, confirmations being
\* current_height - block_height
RECURSIVE watcherPaymentsByHash(_, _, _)
watcherPaymentsByHash(payments, currentHeight, byHash) ==
  IF payments = <<>> THEN byHash
  ELSE LET p == Head(payments)
           confirmations == IF p.block_height > 0 /\ currentHeight > 0
                            THEN Max(currentHeight - p.block_height, 0)
                            ELSE p.confirmations
           entry == [hash |-> p.tx_hash, amountAtomic |-> p.amount,
                     confirmations |-> confirmations]
       IN watcherPaymentsByHash(Tail(payments), currentHeight,
                                UpsertByHash(byHash, entry))

\* watcher.js fetchViaRpc: get_wallet_info, then get_payments
watcherFetchViaRpc(rpc, paymentId) ==
  IF paymentId = "" THEN [raise |-> FALSE, deposits |-> <<>>, calls |-> <<>>]
  ELSE IF rpc.infoError
  THEN [raise |-> TRUE, deposits |-> <<>>, calls |-> <<"get_wallet_info">>]
  ELSE IF rpc.paymentsError
  THEN [raise |-> TRUE, deposits |-> <<>>,
        calls |-> <<"get_wallet_info", "get_payments">>]
  ELSE [raise |-> FALSE,
        deposits |-> watcherPaymentsByHash(rpc.payments, rpc.current_height, <<>>),
        calls |-> <<"get_wallet_info", "get_payments">>]

\* consolidateDeposit: the wallet RPC `transfer` of amount - fee to the
\* consolidation address; null when disabled or when nothing is left to send
consolidateDeposit(rules, deposit, transfer) ==
  LET fee        == rules.feeAtomic
      sendAmount == deposit.amountAtomic - fee
  IN IF ~rules.enabled \/ rules.address = ""
     THEN [invoked |-> FALSE, raise |-> FALSE, result |-> NoTransferResult]
     ELSE IF sendAmount <= 0
     THEN [invoked |-> FALSE, raise |-> FALSE, result |-> NoTransferResult]
     ELSE IF transfer.error
     THEN [invoked |-> TRUE, raise |-> TRUE, result |-> NoTransferResult]
     ELSE [invoked |-> TRUE, raise |-> FALSE,
           result |-> [isNull |-> FALSE, tx_hash |-> transfer.tx_hash]]

watcherStatusRecord(c, statusName, dep, paid, effective, fee) ==
  [NoStatus EXCEPT
     !.status = statusName,
     !.confirmations = dep.confirmations,
     !.hash = dep.hash,
     !.paymentId = IF c.loaded.paymentId # "" THEN c.loaded.paymentId
                   ELSE c.loaded.txId,
     !.paidAmountAtomic = paid,
     !.effectiveAmountAtomic = effective,
     !.feeAtomic = fee]

\* watcher.js lines 775-779: fetchDeposits
watcherStageFetch(c) ==
  IF c.done THEN c
  ELSE LET c0 == Call(c, "fetch")
           r  == watcherFetchViaRpc(c.rpc, c.paymentId)
           c1 == [c0 EXCEPT !.calls = r.calls]
       IN IF c0.done THEN c0
          ELSE IF r.raise THEN [c1 EXCEPT !.done = TRUE, !.raised = "rpc"]
          ELSE IF r.deposits = <<>> THEN Return(c1)
          ELSE [c1 EXCEPT !.deposits = r.deposits, !.best = BestOf(r.deposits)]

\* watcher.js lines 781-817: the confirmed observation, or CONFIRMING
watcherStageThreshold(c) ==
  IF c.done THEN c
  ELSE LET confirmed == BestOf(FilterConfirmed(c.deposits, c.minConfirmations))
       IN IF confirmed.hash = ""
          THEN IF c.best.hash # ""
               THEN Return(saveStatus(c, "status.below",
                      watcherStatusRecord(c, "CONFIRMING", c.best, NoVal, NoVal, NoVal)))
               ELSE Return(c)
          ELSE [c EXCEPT !.confirmed = confirmed]

\* watcher.js lines 826-834: consolidation rules of the ticker
watcherStageRules(c) ==
  IF c.done THEN c
  ELSE LET rules == c.config.consolidation[c.ticker]
           consolidationEnabled == rules.enabled /\ rules.address # ""
           consolidationMinConf == rules.minConfirmations
       IN [c EXCEPT !.consolidationEnabled = consolidationEnabled,
                    !.canConsolidateNow =
                       consolidationEnabled
                       /\ c.confirmed.confirmations >= consolidationMinConf]

\* watcher.js lines 847-866: webhook payload
watcherStagePayload(c) ==
  IF c.done THEN c
  ELSE [Note(c, "payload") EXCEPT
          !.cpayload = [NoConsolidationPayload EXCEPT
                          !.paymentId = c.loaded.txId,
                          !.hash = c.confirmed.hash,
                          !.amountAtomic = c.confirmed.amountAtomic,
                          !.paidAmountAtomic = c.confirmed.amountAtomic,
                          !.effectiveAmountAtomic = c.confirmed.amountAtomic,
                          !.confirmations = c.confirmed.confirmations]]

\* a consolidationAttempted latch that is never honoured
consolidationNeverAttempted(job) == FALSE

\* watcher.js line 868: String(job.consolidationAttempted || '') === 'true'
consolidationAlreadyAttempted(job) == job.consolidationAttempted

\* watcher.js line 893: if (rules.feeAtomic)
feeConfigured(rules) == rules.feeAtomic # 0

\* watcher.js lines 904-911, the catch block of the consolidation: the error
\* message is kept for the payload and written onto the Job with the latch;
\* this kv.hset stands in no try block
consolidationCatch(c, message) ==
  LET c1 == [c EXCEPT !.consolidationError = message,
                      !.cpayload.consolidationError = message]
  IN hsetThrowing(c1, "hset.consolidationError",
                  [c1.job EXCEPT !.exists = TRUE,
                                 !.consolidationAttempted = TRUE,
                                 !.consolidationError = message])

\* watcher.js lines 868-915: one consolidation attempt per Job.  The try
\* block holds consolidateDeposit, the fee fields of the payload and the
\* kv.hset of the latch: when one of the two calls throws, the catch block
\* runs with what the payload holds by then
StageConsolidate(c) ==
  IF c.done THEN c
  ELSE LET rules == c.config.consolidation[c.ticker]
           consolidationAttempted == consolidationAlreadyAttempted(c.loaded)
           c0 == [c EXCEPT !.consolidationAttempted = consolidationAttempted]
       IN IF consolidationAttempted THEN c0
          ELSE IF c.consolidationEnabled /\ ~c.canConsolidateNow THEN c0
          ELSE IF c.consolidationEnabled /\ c.canConsolidateNow
          THEN LET r  == consolidateDeposit(rules, c.confirmed, c.transfer)
                   c1 == IF r.invoked THEN Call(c0, "transfer") ELSE c0
               IN IF c1.done THEN c1
                  ELSE IF r.raise THEN consolidationCatch(c1, "transfer failed")
                  ELSE LET fee == rules.feeAtomic
                           p1 == [c1.cpayload EXCEPT
                                    !.consolidationTxId = r.result.tx_hash]
                           p2 == IF feeConfigured(rules)
                                 THEN [p1 EXCEPT
                                         !.feeAtomic = fee,
                                         !.effectiveAmountAtomic =
                                            c.confirmed.amountAtomic - fee]
                                 ELSE p1
                           c2 == [c1 EXCEPT !.consolidationResult = r.result,
                                            !.cpayload = p2]
                           c3 == hsetSwallowed(c2, "hset.consolidated",
                                   [c2.job EXCEPT !.exists = TRUE,
                                                  !.consolidationAttempted = TRUE,
                                                  !.consolidationTxId = r.result.tx_hash])
                       IN IF c3.done THEN c3
                          ELSE IF Threw(c3, "hset.consolidated")
                          THEN consolidationCatch(c3, "KV request failed")
                          ELSE c3
          ELSE c0

\* watcher.js lines 917-959: dispatch unless webhookSent; COMPLETED and the
\* webhookSent latch on a 2xx
watcherStageDispatch(c) ==
  IF c.done \/ webhookAlreadySent(c.loaded) THEN c
  ELSE LET webhookOk == sendWebhook(c.response).ok
           c0 == Call(c, "send")
           c1 == [c0 EXCEPT !.webhookOk = webhookOk, !.dispatched = TRUE]
       IN IF c0.done THEN c0
          ELSE IF webhookOk
          THEN LET c2 == saveStatus(c1, "status.completed",
                           watcherStatusRecord(c, "COMPLETED", c.confirmed,
                             c.confirmed.amountAtomic,
                             c.cpayload.effectiveAmountAtomic,
                             c.cpayload.feeAtomic))
               IN hsetThrowing(c2, "hset.sent",
                               [c2.job EXCEPT !.exists = TRUE, !.webhookSent = TRUE])
          ELSE c1

\* watcher.js lines 961-969: mark Seen and delete the Job
watcherStageFinish(c) ==
  IF c.done THEN c
  ELSE LET canDelete ==
             /\ c.webhookOk
             /\ (~c.consolidationEnabled \/ c.consolidationAttempted
                 \/ c.canConsolidateNow)
             /\ (~c.consolidationEnabled \/ ~c.consolidationResult.isNull
                 \/ c.canConsolidateNow)
       IN IF canDelete /\ c.webhookOk
          THEN Return(deleteDepositJob(markSeen(c, "markSeen", c.confirmed.hash), "del"))
          ELSE Return(c)

\* the context of a pass of watcher.js that has not run yet
watcherJobContext(job, status, seenMap, ticker, cfg, time, rpc, transfer, response, fault) ==
  [job |-> job, status |-> status, seen |-> seenMap, clock |-> time,
   ticker |-> ticker, config |-> cfg,
   rpc |-> rpc, transfer |-> transfer, response |-> response,
   fault |-> fault,
   awaited |-> {}, budget |-> WholePass, paused |-> FALSE, next |-> "",
   ops |-> <<>>, calls |-> <<>>, done |-> FALSE, raised |-> "",
   loaded |-> NoJob, statusPaymentId |-> "", seenHit |-> FALSE,
   minConfirmations |-> 0, paymentId |-> "",
   deposits |-> <<>>, best |-> NoDeposit, confirmed |-> NoDeposit,
   cpayload |-> NoConsolidationPayload,
   consolidationEnabled |-> FALSE, canConsolidateNow |-> FALSE,
   consolidationAttempted |-> FALSE,
   consolidationResult |-> NoTransferResult,
   consolidationError |-> "",
   webhookOk |-> TRUE, dispatched |-> FALSE]

\* watcher.js lines 725-970: the stages of handleJob in their order
watcherStages(c0) ==
  watcherStageFinish(watcherStageDispatch(StageConsolidate(watcherStagePayload(
    StageSeenGuard(watcherStageRules(watcherStageThreshold(watcherStageFetch(
      StageBackfill(StageLoad(c0))))))))))

\* watcher.js handleJob, the whole of it with no other handler in between
watcherHandleJob(job, status, seenMap, ticker, cfg, time, rpc, transfer, response, fault) ==
  watcherStages(watcherJobContext(job, status, seenMap, ticker, cfg, time, rpc,
                                  transfer, response, fault))

\* the pass c of watcher.js goes on for one await
watcherResumeJob(c, job, status, seenMap, time, rpc, transfer, response, fault) ==
  watcherStages(
    [c EXCEPT !.job = job, !.status = status, !.seen = seenMap, !.clock = time,
              !.rpc = IF "fetch" \in c.awaited THEN @ ELSE rpc,
              !.transfer = IF "transfer" \in c.awaited THEN @ ELSE transfer,
              !.response = IF "send" \in c.awaited THEN @ ELSE response,
              !.fault = fault, !.budget = 1, !.done = FALSE, !.paused = FALSE,
              !.next = ""])

\* ------------------------------------------------------------------------
\* State
\* ------------------------------------------------------------------------
VARIABLES
  countHashes,  \* history: whether this specification keeps the histories
                \*          per hash (hashOk, recentOk, recentFail)
  config,       \* the watcher configuration (never changes)
  now,          \* the clock (Date.now())
  jobs,         \* KV: Job hash per (ticker, paymentId)
  status,       \* KV: Status JSON per (ticker, paymentId)
  seen,         \* KV: Seen entry per tx hash, as the time it expires (0: absent)
  backoffUntil, \* per process, the loop's backoff deadline of each ticker
  okCount,      \* history: 2xx responses received for the current Job of a key
  okHash,       \* history: the hash of the webhook accepted for the current Job
  hashOk,       \* history: 2xx responses received for webhooks carrying a hash
  recentOk,     \* history: per hash, when the Seen TTL of its latest 2xx ends
  recentFail,   \* history: per hash, when the Seen TTL of its latest window
                \*          failure ends
  crashed,      \* history: the process has stopped, or a KV call has failed,
                \*          inside a pass
  last,         \* history: what the latest step did
  calc,         \* the latest application of a pure function: arguments, result
  cons,         \* history: per key, the consolidation of the current Job
  sched,        \* the loop of startDepositWatcher: state.running, its position
                \* in the tick, and the history of the tick
  inst,         \* per watcher process, the pass in flight between two awaits
  intake        \* the bag of the create handlers that are between two awaits

hist == <<okCount, okHash, hashOk, recentOk, recentFail, crashed>>
\* the variables that the watcher's passes and the intake leave alone
other == <<calc, sched, inst, intake>>
vars == <<countHashes, config, now, jobs, status, seen, backoffUntil, hist, last,
          other, cons>>

\* the watcher processes that poll the same key prefix
Instances == {"w1", "w2"}

\* a watcher process between two passes
IdleInstance ==
  [busy |-> FALSE, key |-> <<"", "">>, okBefore |-> FALSE, interrupts |-> 0,
   c |-> jobContext(NoJob, NoStatus, [h \in Hashes |-> 0], "zano", DefaultConfig, 0,
                    NoRpc, 0, 0, NoFault)]

\* no create request in flight
NoIntake == EmptyBag

\* no transfer invoked, no latch set, no webhook dispatched for the Job; hash
\* is the deposit that was transferred, the amounts are those of the payload
\* of the latest dispatch, acceptedBy counts the 2xx answers per process
NoCons ==
  [transfers |-> 0, latched |-> 0, outcome |-> "none", hash |-> "",
   acceptedBy |-> [i \in Instances |-> 0],
   accepted |-> FALSE, effectiveAmountAtomic |-> NoVal, feeAtomic |-> NoVal,
   paidAmountAtomic |-> NoVal]

\* the loop before its first tick
NoSched ==
  [running |-> TRUE, exited |-> FALSE, phase |-> "sleeping", ti |-> 0,
   queue |-> <<>>, handled |-> <<>>, entered |-> {}, stopAt |-> NoVal,
   stopPhase |-> "", ticks |-> 0, inflight |-> {}]

\* no pure function applied yet
NoCalc == [fn |-> "", amountAtomic |-> 0, decimals |-> 0, result |-> 0]

IdleLast ==
  [op |-> "init", key |-> <<"", "">>, ops |-> <<>>, raised |-> "",
   sentBefore |-> FALSE, okBefore |-> FALSE, seenBefore |-> FALSE,
   existedBefore |-> FALSE, response |-> NoVal, hash |-> "", http |-> 0,
   invalid |-> FALSE, errorLength |-> 0,
   failedCalls |-> {}, queried |-> FALSE, matched |-> FALSE,
   best |-> NoDeposit, payload |-> NoDeposit, payloadObserved |-> FALSE,
   loaded |-> NoJob, minConfirmations |-> 0, now |-> 0, step |-> ""]

\* ------------------------------------------------------------------------
\* Inputs
\* ------------------------------------------------------------------------
Payments ==
  {[tx_hash |-> h, amount |-> AmountOf[h], block_height |-> b, confirmations |-> 0] :
     h \in Hashes, b \in BlockHeights}

\* get_payments lists a transaction once
PaymentLists ==
  {l \in UNION {[1..n -> Payments] : n \in 0..MaxPayments} :
     \A i, j \in 1..Len(l) : i # j => l[i].tx_hash # l[j].tx_hash}

RpcFailure(info, pay) ==
  [infoError |-> info, paymentsError |-> pay, recentError |-> FALSE,
   statusApi |-> "off", statusDeposits |-> <<>>,
   current_height |-> 0, payments |-> <<>>, transfers |-> <<>>]

WalletResponses ==
  {RpcFailure(TRUE, FALSE), RpcFailure(FALSE, TRUE)}
  \cup [infoError : {FALSE}, paymentsError : {FALSE}, recentError : {FALSE},
        statusApi : {"off"}, statusDeposits : {<<>>},
        current_height : {1, MaxHeight}, payments : PaymentLists,
        transfers : {<<>>}]

RandomDraws == IF config.webhookBackoffJitter THEN 0..(RandDen - 1) ELSE {0}

TickerInputs == Tickers \cup {"btc"}
ClientReferences == {"", "r1"}
CallbackConfirmations == {MaxHeight}
\* ttlSeconds of a create request: absent
TtlInputs == {NoVal}

\* the places where the process may stop once a webhook was answered: right
\* after the response, after the COMPLETED status, after the webhookSent
\* write, after the Seen write
CrashPoints ==
  [kind : {"stop"}, at : {"status.completed", "hset.sent", "markSeen", "del"}]

Cap(n) == IF n >= 2 THEN 2 ELSE n
Cap3(n) == IF n >= 3 THEN 3 ELSE n

\* ------------------------------------------------------------------------
\* Init
\* ------------------------------------------------------------------------
\* the state after construction under the configuration cfg
StartWith(cfg) ==
  /\ config = cfg
  /\ now = 1
  /\ jobs = [k \in Keys |-> NoJob]
  /\ status = [k \in Keys |-> NoStatus]
  /\ seen = [h \in Hashes |-> 0]
  /\ backoffUntil = [i \in Instances |-> [t \in Tickers |-> 0]]
  /\ okCount = [k \in Keys |-> 0]
  /\ okHash = [k \in Keys |-> ""]
  /\ hashOk = [h \in Hashes |-> 0]
  /\ recentOk = [h \in Hashes |-> 0]
  /\ recentFail = [h \in Hashes |-> 0]
  /\ crashed = FALSE
  /\ last = IdleLast
  /\ cons = [k \in Keys |-> NoCons]

\* no pass in flight
NoInst == [i \in Instances |-> IdleInstance]

Start ==
  /\ StartWith(DefaultConfig)
  /\ calc = NoCalc
  /\ sched = NoSched
  /\ inst = NoInst
  /\ intake = NoIntake

\* a handler other than handleJob may run between two awaits of the passes in
\* flight
Interruptible ==
  \A i \in Instances : inst[i].busy => inst[i].interrupts < MaxInterrupts

\* the passes in flight, once such a handler has run
Interrupted ==
  [i \in Instances |->
     IF inst[i].busy THEN [inst[i] EXCEPT !.interrupts = @ + 1] ELSE inst[i]]

\* ------------------------------------------------------------------------
\* Intake: POST /api/transaction/create (server.js) with createDepositJob.
\* The handler awaits kv.hset, kv.expire and saveStatus one after the other.
\* Every request is served by a handler of its own: `intake` holds the
\* handlers that are between two awaits, each with its key, the await it
\* goes on with (next) and its jobTtl.
\* ------------------------------------------------------------------------
isTickerEnabled(t) == t \in config.tickers

\* getMinConfirmations
getMinConfirmations(t) == config.minConfirmations[t]

\* parsePositiveInt(ttlSeconds, watcherConfig.jobTtlSeconds): the fallback
\* for a value that is no number or is negative; NoVal stands for a request
\* without ttlSeconds
jobTtlOf(ttlSeconds) == IF ttlSeconds < 0 THEN config.jobTtlSeconds ELSE ttlSeconds

\* createDepositJob, kv.hset(key, payload): the creation fields onto the key
hsetDepositJob(old, pid, address, minConf) ==
  [old EXCEPT !.exists = TRUE, !.address = address, !.txId = pid,
              !.paymentId = pid, !.minConf = minConf]

\* createDepositJob, if (ttlSeconds && ...) kv.expire(key, ttlSeconds):
\* EXPIRE on a key that is absent does nothing
expireDepositJob(job, ttlSeconds, time) ==
  IF job.exists THEN [job EXCEPT !.expiresAt = time + ttlSeconds] ELSE job

\* createDepositJob with no other handler between its two calls
createDepositJob(old, pid, address, minConf, ttlSeconds, time) ==
  IF ttlSeconds # 0
  THEN expireDepositJob(hsetDepositJob(old, pid, address, minConf), ttlSeconds, time)
  ELSE hsetDepositJob(old, pid, address, minConf)

\* the Status that the create handler saves
PendingStatus(pid, time) ==
  [NoStatus EXCEPT !.status = "PENDING", !.confirmations = 0, !.paymentId = pid,
                   !.expiresAt = ExpiryOf(time, config.statusTtlSeconds)]

\* the wallet's answers to make_integrated_address
IntegratedAddressResponses == {"error", "ok"}

\* the handler up to the first call of createDepositJob: the checks in the
\* order of the code, the integrated address made by the wallet when a zano
\* request carries no address, then kv.hset.  kvOk is whether the KV answers
\* that call; the handler answers 500 when it does not
CreateRequest(t, pid, address, clientReference, ttlSeconds, wallet, kvOk) ==
  LET generate       == address = "" /\ t = "zano"
      finalAddress   == IF generate THEN "IA" ELSE address
      finalPaymentId == IF generate /\ pid = "" THEN "p1" ELSE pid
      k              == <<t, finalPaymentId>>
      \* history: the request lacks client_reference or names a ticker that
      \* is not enabled
      invalid        == clientReference = "" \/ ~isTickerEnabled(t)
      http == IF t = "" THEN 400
              ELSE IF ~isTickerEnabled(t) THEN 400
              ELSE IF generate /\ wallet = "error" THEN 502
              ELSE IF clientReference = "" THEN 400
              ELSE IF finalAddress = "" THEN 400
              ELSE IF finalPaymentId = "" THEN 400
              ELSE IF ~kvOk THEN 500
              ELSE 200
  IN /\ IF http # 200
        THEN /\ last' = [IdleLast EXCEPT !.op = "create", !.key = <<t, pid>>,
                                         !.http = http, !.invalid = invalid]
             /\ UNCHANGED <<countHashes, config, now, jobs, status, seen,
                            backoffUntil, hist, other, cons>>
        ELSE /\ BagCardinality(intake) < MaxHandlers
             /\ Interruptible
             /\ inst' = Interrupted
             /\ jobs' = [jobs EXCEPT ![k] =
                           hsetDepositJob(jobs[k], finalPaymentId, finalAddress,
                                          getMinConfirmations(t))]
             /\ intake' = intake (+) SetToBag({
                           [key |-> k,
                            next |-> IF jobTtlOf(ttlSeconds) # 0 THEN "expire"
                                     ELSE "set",
                            ttlSeconds |-> jobTtlOf(ttlSeconds)]})
             /\ okCount' = [okCount EXCEPT ![k] = IF jobs[k].exists THEN @ ELSE 0]
             /\ okHash' = [okHash EXCEPT ![k] = IF jobs[k].exists THEN @ ELSE ""]
             /\ cons' = [cons EXCEPT ![k] =
                           IF jobs[k].exists /\ jobs[k].address # "" THEN @
                           ELSE NoCons]
             /\ last' = [IdleLast EXCEPT !.op = "await", !.key = k]
             /\ UNCHANGED <<countHashes, config, now, status, seen, backoffUntil,
                            hashOk, recentOk, recentFail, crashed, calc, sched>>

\* the handler h goes on for one await: kv.expire of createDepositJob, or
\* saveStatus and the 200 answer; a call that the KV does not answer ends the
\* handler with 500
CreateResumeOf(h, kvOk) ==
  /\ BagIn(h, intake)
  /\ Interruptible
  /\ inst' = Interrupted
  /\ LET k    == h.key
         rest == intake (-) SetToBag({h})
     IN IF ~kvOk
        THEN /\ intake' = rest
             /\ last' = [IdleLast EXCEPT !.op = "create", !.key = k, !.http = 500]
             /\ UNCHANGED <<jobs, status>>
        ELSE IF h.next = "expire"
        THEN /\ jobs' = [jobs EXCEPT ![k] = expireDepositJob(@, h.ttlSeconds, now)]
             /\ intake' = rest (+) SetToBag({[h EXCEPT !.next = "set"]})
             /\ last' = [IdleLast EXCEPT !.op = "await", !.key = k]
             /\ UNCHANGED status
        ELSE /\ status' = [status EXCEPT ![k] = PendingStatus(k[2], now)]
             /\ intake' = rest
             /\ last' = [IdleLast EXCEPT !.op = "create", !.key = k, !.http = 200]
             /\ UNCHANGED jobs
  /\ UNCHANGED <<countHashes, config, now, seen, backoffUntil, hist, calc, sched,
                 cons>>

\* one of the handlers in flight goes on for one await
CreateResume(kvOk) == \E h \in BagToSet(intake) : CreateResumeOf(h, kvOk)

\* a request that carries its address, over a KV that answers
Create(t, pid, clientReference, ttlSeconds) ==
  CreateRequest(t, pid, "A", clientReference, ttlSeconds, "ok", TRUE)

\* ------------------------------------------------------------------------
\* Intake: POST /api/transaction/callback/:ticker (server.js); its one KV
\* call is saveStatus
\* ------------------------------------------------------------------------
Callback(k, hash, confirmations) ==
  /\ Interruptible
  /\ inst' = Interrupted
  /\ status' = [status EXCEPT ![k] =
                  [NoStatus EXCEPT !.status = "COMPLETED",
                                   !.confirmations = confirmations,
                                   !.hash = hash,
                                   !.paidAmountAtomic = AmountOf[hash],
                                   !.expiresAt =
                                      ExpiryOf(now, config.statusTtlSeconds)]]
  /\ last' = [IdleLast EXCEPT !.op = "callback", !.key = k, !.http = 200,
                              !.existedBefore = jobs[k].exists]
  /\ UNCHANGED <<countHashes, config, now, jobs, seen, backoffUntil, hist, calc,
                 sched, intake, cons>>

\* ------------------------------------------------------------------------
\* Watcher: processTickerJobs scans the Job keys and calls handleJob for a
\* key it found; handleJob then runs from await to await, `inst` holding the
\* pass in between; an RpcError sets the ticker's backoff in loop
\* ------------------------------------------------------------------------
\* the process of a deployment with one watcher
Watcher == "w1"

\* kv.scan finds the key, and the ticker does not back off in the loop of
\* process i
Ready(i, k) == jobs[k].exists /\ backoffUntil[i][k[1]] <= now

\* the pass in flight between two awaits: the locals of handleJob
Parked(r) ==
  [r EXCEPT !.job = NoJob, !.status = NoStatus, !.seen = [h \in Hashes |-> 0],
            !.clock = 0, !.fault = NoFault, !.budget = 0, !.done = FALSE,
            !.paused = FALSE]

\* the await that the pass in flight of process i performs next
AwaitOf(i) == inst[i].c.next

NextAwait == AwaitOf(Watcher)

\* a processTickerJobs that swallows the RpcError too
rethrowsNothing(raised) == FALSE

\* processTickerJobs, catch: if (error.isRpcError) throw error
rethrows(raised) == raised = "rpc"

\* what a pass that has returned or thrown leaves in `last`
PassSummary(k, r, before) ==
  LET h == r.confirmed.hash
  IN [IdleLast EXCEPT
        !.op = "pass", !.key = k, !.ops = r.ops,
        !.raised = r.raised,
        !.loaded = r.loaded,
        !.sentBefore = r.loaded.webhookSent,
        !.okBefore = before.okBefore,
        !.seenBefore = r.seenHit,
        !.existedBefore = TRUE,
        !.response = IF r.dispatched THEN r.response ELSE NoVal,
        !.hash = h, !.http = 0,
        !.errorLength = r.errorLength,
        !.failedCalls = failedCalls(r.rpc, r.calls),
        !.queried = r.calls # <<>>,
        !.matched = r.deposits # <<>>,
        !.best = r.best,
        !.minConfirmations = r.minConfirmations,
        !.now = r.now,
        !.payload =
           IF r.dispatched
           THEN [hash |-> r.payload.hash,
                 amountAtomic |-> r.payload.amountAtomic,
                 confirmations |-> r.payload.confirmations]
           ELSE NoDeposit,
        !.payloadObserved =
           /\ r.dispatched
           /\ \E i \in 1..Len(r.deposits) :
                /\ r.deposits[i].hash = r.payload.hash
                /\ r.deposits[i].amountAtomic = r.payload.amountAtomic
                /\ r.deposits[i].confirmations = r.payload.confirmations]

\* handleJob(kv, key, ...) called: the pass of process i over the key k
\* before its first await
Invoked(k) ==
  [busy |-> TRUE, key |-> k, okBefore |-> okCount[k] >= 1, interrupts |-> 0,
   c |-> Parked([jobContext(NoJob, NoStatus, seen, k[1], config, 0, NoRpc, 200, 0,
                            NoFault)
                   EXCEPT !.next = "get"])]

\* processTickerJobs, for (const key of keys): handleJob is called for a key
\* that the scan found
Scan(i, k) ==
  /\ ~inst[i].busy
  /\ Ready(i, k)
  /\ inst' = [inst EXCEPT ![i] = Invoked(k)]
  /\ last' = [IdleLast EXCEPT !.op = "scan", !.key = k]
  /\ UNCHANGED <<countHashes, config, now, jobs, status, seen, backoffUntil, hist,
                 calc, sched, intake, cons>>

\* the effect of the run r of the pass c of process i over the key k: the
\* awaited call on the KV, the backoff of the ticker after an RpcError, and
\* the pass that is parked at its next await or is over
Pass(i, k, c, r, fault) ==
  LET done(name) == name \in r.awaited \ c.awaited
      accepted   == done("send") /\ r.response >= 200 /\ r.response < 300
      failed     == done("markSeen.failed")
      h          == r.confirmed.hash
  IN /\ jobs' = [jobs EXCEPT ![k] = r.job]
     /\ status' = [status EXCEPT ![k] = r.status]
     /\ seen' = r.seen
     /\ backoffUntil' = IF rethrows(r.raised)
                        THEN [backoffUntil EXCEPT
                                ![i][k[1]] = now + config.errorBackoffMs]
                        ELSE backoffUntil
     /\ okCount' = [okCount EXCEPT ![k] = IF accepted THEN Cap(@ + 1) ELSE @]
     /\ okHash' = [okHash EXCEPT ![k] = IF accepted THEN r.payload.hash ELSE @]
     /\ hashOk' = IF accepted /\ countHashes
                  THEN [hashOk EXCEPT ![r.payload.hash] = Cap(@ + 1)]
                  ELSE hashOk
     /\ recentOk' = IF accepted /\ countHashes
                    THEN [recentOk EXCEPT ![r.payload.hash] = now + config.seenTtlSeconds]
                    ELSE recentOk
     /\ recentFail' = IF failed /\ countHashes
                      THEN [recentFail EXCEPT ![h] = now + config.seenTtlSeconds]
                      ELSE recentFail
     /\ cons' = [cons EXCEPT ![k].acceptedBy[i] = IF accepted THEN Cap3(@ + 1) ELSE @]
     /\ inst' = [inst EXCEPT ![i] =
                   IF r.paused THEN [@ EXCEPT !.c = Parked(r)] ELSE IdleInstance]
     /\ last' = IF r.paused
                THEN [IdleLast EXCEPT !.op = "await", !.key = k, !.step = c.next]
                ELSE [PassSummary(k, r, inst[i]) EXCEPT !.step = c.next]
     /\ fault.kind = "stop" => r.raised = "kv"
     /\ crashed' = (crashed \/ fault.kind # "none")
     /\ UNCHANGED <<countHashes, config, now, calc, intake>>

\* handleJob of process i goes on for one await, which gets the answer rpc
\* of the wallet or the answer response of the merchant when it asks them
HandleJob(i, k, rpc, response, rnd, fault) ==
  /\ inst[i].busy
  /\ inst[i].key = k
  /\ fault.kind # "none" => fault.at = AwaitOf(i)
  /\ \E r \in {resumeJob(inst[i].c, jobs[k], status[k], seen, now, rpc, response,
                          rnd, fault)} :
       Pass(i, k, inst[i].c, r, fault)
  /\ UNCHANGED sched

\* ------------------------------------------------------------------------
\* Time passes; the KV store evicts the keys whose TTL is over (a key
\* without TTL stays)
\* ------------------------------------------------------------------------
Evicted(expiresAt, time) == expiresAt > 0 /\ expiresAt <= time

TickUntil(limit) ==
  /\ now < limit
  /\ Interruptible
  /\ inst' = Interrupted
  /\ now' = now + 1
  /\ jobs' = [k \in DOMAIN jobs |->
                IF Evicted(jobs[k].expiresAt, now + 1) THEN NoJob ELSE jobs[k]]
  /\ status' = [k \in DOMAIN status |->
                  IF Evicted(status[k].expiresAt, now + 1) THEN NoStatus
                  ELSE status[k]]
  /\ seen' = [h \in Hashes |-> IF seen[h] <= now + 1 THEN 0 ELSE seen[h]]
  /\ backoffUntil' = [i \in Instances |->
                        [t \in DOMAIN backoffUntil[i] |->
                           IF backoffUntil[i][t] <= now + 1 THEN 0
                           ELSE backoffUntil[i][t]]]
  /\ recentOk' = [h \in Hashes |-> IF recentOk[h] <= now + 1 THEN 0 ELSE recentOk[h]]
  /\ recentFail' = [h \in Hashes |->
                      IF recentFail[h] <= now + 1 THEN 0 ELSE recentFail[h]]
  /\ last' = [IdleLast EXCEPT !.op = "tick"]
  /\ UNCHANGED <<countHashes, config, okCount, okHash, hashOk, crashed, calc,
                 sched, intake, cons>>

Tick == TickUntil(MaxTime)

\* ------------------------------------------------------------------------
\* Specifications
\* ------------------------------------------------------------------------
\* a create request that the handler accepts arrives, or the handler of one
\* goes on; the requests that the handler rejects write nothing and are
\* drawn in SpecIntake
CreateStep ==
  \/ \E t \in Tickers, pid \in PaymentIds, c \in ClientReferences \ {""},
        ttl \in TtlInputs : Create(t, pid, c, ttl)
  \/ CreateResume(TRUE)

CallbackStep == \E k \in Keys, h \in Hashes, n \in CallbackConfirmations :
                  Callback(k, h, n)

\* the answers that the next await of the pass in flight can get: of the
\* wallet at fetchDeposits, of the merchant at sendWebhook, and the jitter
\* of the backoff after a failed dispatch
RpcInputs(i, rpcs) == IF AwaitOf(i) = "fetch" THEN rpcs ELSE {NoRpc}
ResponseInputs(i, responses) == IF AwaitOf(i) = "send" THEN responses ELSE {200}
JitterInputs(i, response) ==
  IF AwaitOf(i) = "send" /\ ~sendWebhook(response).ok THEN RandomDraws ELSE {0}

\* process i calls handleJob for a scanned key, or its pass in flight goes
\* on for one await
PassStepOf(i, rpcs, responses) ==
  \E k \in Keys :
    \/ Scan(i, k)
    \/ \E rpc \in RpcInputs(i, rpcs), w \in ResponseInputs(i, responses) :
         \E rnd \in JitterInputs(i, w) : HandleJob(i, k, rpc, w, rnd, NoFault)

PassStepWith(rpcs, responses) == PassStepOf(Watcher, rpcs, responses)

PassStep == PassStepWith(WalletResponses, WebhookResponses)

\* the process stops at one of the CrashPoints of the pass in flight; a
\* behaviour has one such stop
CrashedPassStep ==
  /\ ~crashed
  /\ \E k \in Keys, f \in CrashPoints : HandleJob(Watcher, k, NoRpc, 200, 0, f)

\* computeDynamicMinConfirmations applied to the arguments drawn at the start
ApplyDynamicMinConf ==
  /\ calc.fn = ""
  /\ calc' = [calc EXCEPT
                !.fn = "computeDynamicMinConfirmations",
                !.result = computeDynamicMinConfirmations(calc.amountAtomic,
                                                          calc.decimals)]
  /\ UNCHANGED <<countHashes, config, now, jobs, status, seen, backoffUntil, hist,
                 last, cons, sched, inst, intake>>

\* the KV calls that handleJob makes once the merchant has accepted the
\* webhook (lines 942-980 and 1047-1050): the COMPLETED Status, whose failure
\* is caught and logged, then the webhookSent write, markSeen and the delete,
\* whose failure leaves handleJob as an exception
KvFailurePoints ==
  {[kind |-> "fail", at |-> "status.completed"],
   [kind |-> "stop", at |-> "hset.sent"],
   [kind |-> "stop", at |-> "markSeen"],
   [kind |-> "stop", at |-> "del"]}

\* the KV call that the pass in flight makes next fails; a behaviour has one
\* such failure
KvFailedPassStep ==
  /\ ~crashed
  /\ \E k \in Keys, f \in KvFailurePoints : HandleJob(Watcher, k, NoRpc, 200, 0, f)

\* fetchViaRpc applied to the arguments drawn at the start
ApplyFetchViaRpc ==
  /\ calc.fn = ""
  /\ calc' = [calc EXCEPT
                !.fn = "fetchViaRpc",
                !.result = fetchViaRpc(calc.rpc, calc.paymentId, calc.expectedAssetId)]
  /\ UNCHANGED <<countHashes, config, now, jobs, status, seen, backoffUntil, hist,
                 last, cons, sched, inst, intake>>

\* formatAtomicAmount applied to the arguments drawn at the start
ApplyFormatAtomicAmount ==
  /\ calc.fn = ""
  /\ calc' = [calc EXCEPT
                !.fn = "formatAtomicAmount",
                !.result = formatAtomicAmount(calc.value, calc.decimals)]
  /\ UNCHANGED <<countHashes, config, now, jobs, status, seen, backoffUntil, hist,
                 last, cons, sched, inst, intake>>

\* a pass whose request to the merchant gets no answer (a network error)
RequestErrorPassStep ==
  /\ NextAwait = "send"
  /\ \E k \in Keys, rnd \in RandomDraws :
       HandleJob(Watcher, k, NoRpc, 0, rnd, NoFault)

Init == Start /\ countHashes = FALSE

\* the same start, keeping the per-hash count of accepted webhooks
InitCounting == Start /\ countHashes = TRUE

\* the intake of create requests and the watcher, with a reliable KV store
\* and no process stop
Next == CreateStep \/ PassStep \/ Tick

Spec == Init /\ [][Next]_vars

\* a Job created by the intake for every key under the configuration cfg,
\* before the first pass
StartCreated(cfg) ==
  /\ countHashes = FALSE
  /\ config = cfg
  /\ now = 1
  /\ jobs = [k \in Keys |->
               createDepositJob(NoJob, k[2], "A", getMinConfirmations(k[1]),
                                cfg.jobTtlSeconds, 1)]
  /\ status = [k \in Keys |-> PendingStatus(k[2], 1)]
  /\ seen = [h \in Hashes |-> 0]
  /\ backoffUntil = [i \in Instances |-> [t \in Tickers |-> 0]]
  /\ okCount = [k \in Keys |-> 0]
  /\ okHash = [k \in Keys |-> ""]
  /\ hashOk = [h \in Hashes |-> 0]
  /\ recentOk = [h \in Hashes |-> 0]
  /\ recentFail = [h \in Hashes |-> 0]
  /\ crashed = FALSE
  /\ last = IdleLast
  /\ cons = [k \in Keys |-> NoCons]
  /\ calc = NoCalc
  /\ sched = NoSched
  /\ inst = NoInst
  /\ intake = NoIntake

InitCreated == StartCreated(DefaultConfig)

\* the watcher under a configuration with an attempt ceiling
AttemptsConfig == [DefaultConfig EXCEPT !.webhookMaxAttempts = 1]

InitAttempts ==
  /\ StartWith(AttemptsConfig)
  /\ countHashes = FALSE
  /\ calc = NoCalc
  /\ sched = NoSched
  /\ inst = NoInst
  /\ intake = NoIntake

SpecAttempts == InitAttempts /\ [][Next]_vars

\* the answers of the status API: none, or one deposit with one confirmation
StatusDeposits ==
  {<<>>} \cup {<<[hash |-> h, amountAtomic |-> AmountOf[h], confirmations |-> 1]>> :
                 h \in Hashes}

\* the answers of a matching in which the status API is configured or some
\* call fails
MatchFailureResponses ==
  LET Answer(info, pay, recent, api, deposits, payments) ==
        [infoError |-> info, paymentsError |-> pay, recentError |-> recent,
         statusApi |-> api, statusDeposits |-> deposits, current_height |-> 1,
         payments |-> payments, transfers |-> <<>>]
      OnePayment == {<<>>} \cup {<<p>> : p \in {q \in Payments : q.block_height = 1}}
  IN {Answer(TRUE, FALSE, FALSE, api, <<>>, <<>>) : api \in {"off", "error", "ok"}}
     \cup {Answer(FALSE, TRUE, FALSE, api, <<>>, <<>>) : api \in {"off", "error", "ok"}}
     \cup {Answer(FALSE, FALSE, FALSE, "ok", d, <<>>) : d \in StatusDeposits}
     \cup {Answer(FALSE, FALSE, FALSE, "error", <<>>, l) : l \in OnePayment}
     \cup {Answer(FALSE, FALSE, TRUE, api, <<>>, l) :
             api \in {"off", "error", "ok"}, l \in OnePayment}

\* a pass whose matching calls the status API or meets a failing call
MatchFailurePassStep ==
  /\ NextAwait = "fetch"
  /\ \E k \in Keys, rpc \in MatchFailureResponses :
       HandleJob(Watcher, k, rpc, 200, 0, NoFault)

NextMatching == PassStep \/ MatchFailurePassStep \/ Tick

SpecMatching == InitCreated /\ [][NextMatching]_vars

\* ------------------------------------------------------------------------
\* The watcher over a KV store that holds hashes it did not write whole: Jobs
\* of an older intake (no paymentId field), hashes without address or txId
\* ------------------------------------------------------------------------
LegacyJobs(k) ==
  LET j == createDepositJob(NoJob, k[2], "A", getMinConfirmations(k[1]),
                            DefaultConfig.jobTtlSeconds, 1)
  IN {j, [j EXCEPT !.paymentId = ""], [j EXCEPT !.address = ""],
      [j EXCEPT !.txId = ""]}

\* the Status record next to such a Job: none, or PENDING with or without the
\* paymentId
LegacyStatuses(k) ==
  {NoStatus,
   [NoStatus EXCEPT !.status = "PENDING", !.paymentId = k[2]],
   [NoStatus EXCEPT !.status = "PENDING"]}

InitLegacy ==
  /\ countHashes = FALSE
  /\ config = DefaultConfig
  /\ now = 1
  /\ jobs \in {f \in [Keys -> UNION {LegacyJobs(k) : k \in Keys}] :
                 \A k \in Keys : f[k] \in LegacyJobs(k)}
  /\ status \in {f \in [Keys -> UNION {LegacyStatuses(k) : k \in Keys}] :
                   \A k \in Keys : f[k] \in LegacyStatuses(k)}
  /\ seen = [h \in Hashes |-> 0]
  /\ backoffUntil = [i \in Instances |-> [t \in Tickers |-> 0]]
  /\ okCount = [k \in Keys |-> 0]
  /\ okHash = [k \in Keys |-> ""]
  /\ hashOk = [h \in Hashes |-> 0]
  /\ recentOk = [h \in Hashes |-> 0]
  /\ recentFail = [h \in Hashes |-> 0]
  /\ crashed = FALSE
  /\ last = IdleLast
  /\ cons = [k \in Keys |-> NoCons]
  /\ calc = NoCalc
  /\ sched = NoSched
  /\ inst = NoInst
  /\ intake = NoIntake

NextLegacy == PassStep \/ MatchFailurePassStep \/ Tick

SpecLegacy == InitLegacy /\ [][NextLegacy]_vars

\* ------------------------------------------------------------------------
\* The watcher with a wallet that shows up to two transactions mined in
\* different blocks, so that the observations of a pass differ in their
\* confirmations
\* ------------------------------------------------------------------------
ObservationResponses ==
  LET Entries == {[tx_hash |-> h, amount |-> AmountOf[h], block_height |-> b,
                   confirmations |-> 0] : h \in Hashes, b \in {1, 2}}
      Lists   == {l \in UNION {[1..n -> Entries] : n \in 0..2} :
                    \A i, j \in 1..Len(l) : i # j => l[i].tx_hash # l[j].tx_hash}
  IN [infoError : {FALSE}, paymentsError : {FALSE}, recentError : {FALSE},
      statusApi : {"off"}, statusDeposits : {<<>>},
      current_height : 1..MaxHeight, payments : Lists, transfers : {<<>>}]

ObservationPassStep == PassStepWith(ObservationResponses, WebhookResponses)

NextObservations == ObservationPassStep \/ Tick

SpecObservations == InitCreated /\ [][NextObservations]_vars

\* ------------------------------------------------------------------------
\* One watcher whose loop goes on for ever: a pass over the Job, the sleep of
\* the loop, the next pass.  The sleep is shorter than a clock unit
\* (delay = max(intervalMs - elapsed, 1000) milliseconds), so the next pass
\* may start at the clock value at which the pass before has ended.
\* Date.now and the TTLs of the KV go on at every await: inside a pass,
\* while the loop awaits kv.scan, and during its sleep.  The wallet answers
\* every call and shows one transaction mined in block 1 while its height
\* grows with the clock; the merchant answers as it likes.  The clock runs
\* to LivenessHorizon, where every Job key has reached its TTL; the loop goes
\* on after that.
\* ------------------------------------------------------------------------
LivenessHorizon == MaxTime + 5

\* a Job TTL that runs out while the first retry window is open, and one that
\* ends with the clock of this specification
LivenessTtls == {DefaultConfig.jobTtlSeconds, LivenessHorizon - 1}

LivenessConfigs ==
  {[DefaultConfig EXCEPT !.webhookMaxAttempts = m, !.jobTtlSeconds = ttl] :
     m \in {0, 1}, ttl \in LivenessTtls}

\* the wallet at clock value time: height time (at most MaxHeight), one
\* payment with hash h in block 1
GrowingWallet(time, h) ==
  [RpcFailure(FALSE, FALSE) EXCEPT
     !.current_height = Min(time, MaxHeight),
     !.payments = <<[tx_hash |-> h, amount |-> AmountOf[h], block_height |-> 1,
                     confirmations |-> 0]>>]

InitLiveness ==
  /\ countHashes = FALSE
  /\ config \in LivenessConfigs
  /\ now = 1
  /\ jobs = [k \in Keys |->
               createDepositJob(NoJob, k[2], "A", DefaultConfig.minConfirmations[k[1]],
                                config.jobTtlSeconds, 1)]
  /\ status = [k \in Keys |->
                 [NoStatus EXCEPT !.status = "PENDING", !.paymentId = k[2]]]
  /\ seen = [h \in Hashes |-> 0]
  /\ backoffUntil = [i \in Instances |-> [t \in Tickers |-> 0]]
  /\ okCount = [k \in Keys |-> 0]
  /\ okHash = [k \in Keys |-> ""]
  /\ hashOk = [h \in Hashes |-> 0]
  /\ recentOk = [h \in Hashes |-> 0]
  /\ recentFail = [h \in Hashes |-> 0]
  /\ crashed = FALSE
  /\ last = IdleLast
  /\ cons = [k \in Keys |-> NoCons]
  /\ calc = NoCalc
  /\ sched = NoSched
  /\ inst = NoInst
  /\ intake = NoIntake

\* an iteration of the loop: kv.scan finds the Job key and handleJob is
\* called, or the pass in flight goes on for one await
LivenessPassStep ==
  \E k \in Keys :
    \/ Scan(Watcher, k)
    \/ \E rpc \in RpcInputs(Watcher, {GrowingWallet(now, h) : h \in Hashes}),
          w \in ResponseInputs(Watcher, WebhookResponses) :
         HandleJob(Watcher, k, rpc, w, 0, NoFault)

\* time passes: Date.now and the TTLs go on while the pass awaits, while
\* the loop awaits kv.scan, and during setTimeout(loop, delay)
LivenessTick == TickUntil(LivenessHorizon)

\* an iteration of the loop when kv.scan finds no Job key: processTickerJobs
\* handles nothing and setTimeout(loop, delay) starts the next iteration
LivenessIdle ==
  /\ ~inst[Watcher].busy
  /\ \A k \in Keys : ~jobs[k].exists
  /\ last' = [IdleLast EXCEPT !.op = IF last.op = "loop" THEN "sleep" ELSE "loop"]
  /\ UNCHANGED <<countHashes, config, now, jobs, status, seen, backoffUntil, hist,
                 calc, sched, inst, intake, cons>>

NextLiveness == LivenessPassStep \/ LivenessTick \/ LivenessIdle

\* a pass is due: it is in flight, or kv.scan finds the Job key
PassDue ==
  \/ inst[Watcher].busy
  \/ \E k \in Keys : Ready(Watcher, k)

\* weak fairness of the loop: a pass that stays due goes on, the clock goes
\* on, an iteration over no key is followed by the next.  For the pass the
\* enabling condition is written out as PassDue, which is the guard of
\* LivenessPassStep, and the step is named by the operations that only
\* LivenessPassStep records in last
LoopFairness ==
  /\ []<>(~PassDue) \/ []<><<last'.op \in {"scan", "await", "pass"}>>_vars
  /\ WF_vars(LivenessTick)
  /\ WF_vars(LivenessIdle)

SpecLiveness == InitLiveness /\ [][NextLiveness]_vars /\ LoopFairness

\* the watcher with a merchant that may also not answer at all
NextDispatch == PassStep \/ RequestErrorPassStep \/ Tick

SpecDispatch == InitCreated /\ [][NextDispatch]_vars

\* the watcher over a KV store whose calls may fail
NextKvFailure == PassStep \/ KvFailedPassStep \/ Tick

SpecKvFailure == InitCreated /\ [][NextKvFailure]_vars

\* ------------------------------------------------------------------------
\* The intake with every shape of request: ticker, payment_id, address or
\* client_reference absent, and the wallet's answer when the handler asks
\* it for an integrated address
\* ------------------------------------------------------------------------
AddressInputs == {"", "A"}
PaymentIdInputs == PaymentIds \cup {""}
\* ttlSeconds of a create request: absent, 0 (no EXPIRE is sent)
IntakeTtlInputs == {NoVal, 0}

CreateRequestStep ==
  \E t \in TickerInputs \cup {""}, pid \in PaymentIdInputs, a \in AddressInputs,
     c \in ClientReferences, ttl \in IntakeTtlInputs, kvOk \in BOOLEAN :
    \E w \in (IF a = "" /\ t = "zano" THEN IntegratedAddressResponses ELSE {"ok"}) :
      CreateRequest(t, pid, a, c, ttl, w, kvOk)

\* the handler of the request in flight goes on, over a KV that may fail
CreateResumeStep == \E kvOk \in BOOLEAN : CreateResume(kvOk)

NextIntake == CreateRequestStep \/ CreateResumeStep \/ CallbackStep \/ Tick

\* a Status TTL shorter than the Job TTL, so that Status records run out
IntakeConfig == [DefaultConfig EXCEPT !.statusTtlSeconds = 2]

InitIntake ==
  /\ StartWith(IntakeConfig)
  /\ countHashes = FALSE
  /\ calc = NoCalc
  /\ sched = NoSched
  /\ inst = NoInst
  /\ intake = NoIntake

SpecIntake == InitIntake /\ [][NextIntake]_vars

\* ------------------------------------------------------------------------
\* The watcher with consolidation
\* ------------------------------------------------------------------------
\* minConf 1 for the deposit, 2 for the consolidation, a fee of 100
ConsolidationConfig ==
  [DefaultConfig EXCEPT
     !.minConfirmations = [t \in Tickers |-> 1],
     !.consolidation = [t \in Tickers |->
                          [enabled |-> TRUE, address |-> "cold", feeAtomic |-> 100,
                           minConfirmations |-> 2]]]

\* the wallet's answers to `transfer`
TransferResponses ==
  {[error |-> TRUE, tx_hash |-> ""], [error |-> FALSE, tx_hash |-> "X1"]}

\* the process stops after `transfer` returned, before the latch is written
\* (or the kv.hset of the catch block throws)
ConsolidationCrashPoints ==
  [kind : {"stop"}, at : {"hset.consolidated", "hset.consolidationError"}]

\* the KV answers the kv.hset of the latch with an error: the call throws
\* inside the try block
ConsolidationKvFailures == [kind : {"fail"}, at : {"hset.consolidated"}]

\* the wallet's answer to a `transfer` that goes through
TransferOk == [error |-> FALSE, tx_hash |-> "X1"]

\* watcher.js handleJob(kv, key, ...) called: the pass before its first await
ConsolidationInvoked(k) ==
  [busy |-> TRUE, key |-> k, okBefore |-> okCount[k] >= 1, interrupts |-> 0,
   c |-> Parked([watcherJobContext(NoJob, NoStatus, seen, k[1], config, 0, NoRpc,
                                   TransferOk, 200, NoFault)
                   EXCEPT !.next = "get"])]

ConsolidationScan(k) ==
  /\ ~inst[Watcher].busy
  /\ Ready(Watcher, k)
  /\ inst' = [inst EXCEPT ![Watcher] = ConsolidationInvoked(k)]
  /\ last' = [IdleLast EXCEPT !.op = "scan", !.key = k]
  /\ UNCHANGED <<countHashes, config, now, jobs, status, seen, backoffUntil, hist,
                 calc, sched, intake, cons>>

\* the effect of the run r of the pass c of watcher.js over the key k
ConsolidationPass(k, c, r, fault) ==
  LET done(name)  == name \in r.awaited \ c.awaited
      sent        == done("send")
      accepted    == sent /\ r.response >= 200 /\ r.response < 300
      transferred == done("transfer")
      wrote(name) == done(name) /\ ~Threw(r, name)
      latchedNow  == ~jobs[k].consolidationAttempted
                     /\ (wrote("hset.consolidated") \/ wrote("hset.consolidationError"))
      h           == r.confirmed.hash
  IN /\ jobs' = [jobs EXCEPT ![k] = r.job]
     /\ status' = [status EXCEPT ![k] = r.status]
     /\ seen' = r.seen
     /\ backoffUntil' = IF rethrows(r.raised)
                        THEN [backoffUntil EXCEPT
                                ![Watcher][k[1]] = now + config.errorBackoffMs]
                        ELSE backoffUntil
     /\ okCount' = [okCount EXCEPT ![k] = IF accepted THEN Cap(@ + 1) ELSE @]
     /\ okHash' = [okHash EXCEPT ![k] = IF accepted THEN h ELSE @]
     /\ cons' = [cons EXCEPT ![k] =
                   [transfers |-> IF transferred THEN Cap(@.transfers + 1)
                                  ELSE @.transfers,
                    latched |-> IF latchedNow THEN Cap(@.latched + 1) ELSE @.latched,
                    outcome |-> IF ~transferred THEN @.outcome
                                ELSE IF r.transfer.error THEN "error"
                                ELSE "ok",
                    hash |-> IF transferred THEN h ELSE @.hash,
                    acceptedBy |-> @.acceptedBy,
                    accepted |-> @.accepted \/ accepted,
                    effectiveAmountAtomic |->
                      IF sent THEN r.cpayload.effectiveAmountAtomic
                      ELSE @.effectiveAmountAtomic,
                    feeAtomic |-> IF sent THEN r.cpayload.feeAtomic ELSE @.feeAtomic,
                    paidAmountAtomic |->
                      IF sent THEN r.cpayload.paidAmountAtomic
                      ELSE @.paidAmountAtomic]]
     /\ inst' = [inst EXCEPT ![Watcher] =
                   IF r.paused THEN [@ EXCEPT !.c = Parked(r)] ELSE IdleInstance]
     /\ last' = IF r.paused
                THEN [IdleLast EXCEPT !.op = "await", !.key = k, !.step = c.next]
                ELSE [IdleLast EXCEPT !.op = "pass", !.key = k, !.ops = r.ops,
                                      !.step = c.next,
                                      !.raised = r.raised,
                                      !.loaded = r.loaded,
                                      !.sentBefore = r.loaded.webhookSent,
                                      !.okBefore = inst[Watcher].okBefore,
                                      !.seenBefore = r.seenHit,
                                      !.existedBefore = TRUE,
                                      !.response = IF r.dispatched THEN r.response
                                                   ELSE NoVal,
                                      !.hash = h, !.http = 0]
     /\ fault.kind = "stop" => r.raised = "kv"
     /\ crashed' = (crashed \/ fault.kind = "stop")
     /\ UNCHANGED <<countHashes, config, now, hashOk, recentOk, recentFail, calc,
                    sched, intake>>

\* handleJob of watcher.js goes on for one await
ConsolidationHandleJob(k, rpc, transfer, response, fault) ==
  /\ inst[Watcher].busy
  /\ inst[Watcher].key = k
  /\ fault.kind # "none" => fault.at = NextAwait
  /\ \E r \in {watcherResumeJob(inst[Watcher].c, jobs[k], status[k], seen, now, rpc,
                                 transfer, response, fault)} :
       ConsolidationPass(k, inst[Watcher].c, r, fault)

\* the answers of the wallet to the `transfer` that the pass awaits next
TransferInputs == IF NextAwait = "transfer" THEN TransferResponses ELSE {TransferOk}

\* a pass of watcher.js is called, or goes on for one await; the wallet's
\* answers and the merchant's answer are drawn when the pass asks for them
ConsolidationPassStep ==
  \E k \in Keys :
    \/ ConsolidationScan(k)
    \/ \E rpc \in RpcInputs(Watcher, WalletResponses), transfer \in TransferInputs,
          w \in ResponseInputs(Watcher, WebhookResponses) :
         ConsolidationHandleJob(k, rpc, transfer, w, NoFault)

\* the process stops between `transfer` and the write of the latch; a
\* behaviour has one such stop
ConsolidationCrashStep ==
  /\ ~crashed
  /\ \E k \in Keys, f \in ConsolidationCrashPoints :
       ConsolidationHandleJob(k, NoRpc, TransferOk, 200, f)

\* the write of the latch throws into the catch block
ConsolidationKvFailureStep ==
  \E k \in Keys, f \in ConsolidationKvFailures :
    ConsolidationHandleJob(k, NoRpc, TransferOk, 200, f)

InitConsolidation ==
  /\ StartWith(ConsolidationConfig)
  /\ countHashes = FALSE
  /\ calc = NoCalc
  /\ sched = NoSched
  /\ inst = NoInst
  /\ intake = NoIntake

NextConsolidation == CreateStep \/ ConsolidationPassStep \/ Tick

\* the watcher of watcher.js with a reliable KV store and no process stop
SpecConsolidation == InitConsolidation /\ [][NextConsolidation]_vars

\* a Job created by the intake for every key under that configuration,
\* before the first pass
InitConsolidationCreated == StartCreated(ConsolidationConfig)

NextConsolidationCrash ==
  \/ ConsolidationPassStep
  \/ ConsolidationCrashStep
  \/ ConsolidationKvFailureStep
  \/ Tick

\* the watcher of watcher.js with one process stop after a transfer and a KV
\* that may reject the write of the latch
SpecConsolidationCrash ==
  InitConsolidationCreated /\ [][NextConsolidationCrash]_vars

\* ------------------------------------------------------------------------
\* The loop of startDepositWatcher over two tickers with two Jobs each
\* ------------------------------------------------------------------------
\* config.tickers in the order of the loop
SchedulerTickers == <<"zano", "fusd">>
SchedulerTickerSet == {SchedulerTickers[i] : i \in 1..Len(SchedulerTickers)}
\* the keys of a ticker in the order of kv.scan
SchedulerPaymentIds == <<"p1", "p2">>
SchedulerKeys ==
  SchedulerTickerSet \X {SchedulerPaymentIds[i] : i \in 1..Len(SchedulerPaymentIds)}

SchedulerConfig ==
  [DefaultConfig EXCEPT
     !.tickers = SchedulerTickerSet,
     !.jobTtlSeconds = MaxTime + 2,
     !.minConfirmations = [t \in SchedulerTickerSet |-> 3],
     !.decimals = [t \in SchedulerTickerSet |-> 1],
     !.assetIds = [t \in SchedulerTickerSet |-> ""],
     !.consolidation = [t \in SchedulerTickerSet |->
                          DefaultConfig.consolidation["zano"]]]

\* the wallet fails, has no payment, or has one payment below the threshold
SchedulerWalletResponses ==
  {RpcFailure(TRUE, FALSE),
   [RpcFailure(FALSE, FALSE) EXCEPT !.current_height = 1],
   [RpcFailure(FALSE, FALSE) EXCEPT
      !.current_height = 1,
      !.payments = <<[tx_hash |-> "H2", amount |-> AmountOf["H2"],
                      block_height |-> 1, confirmations |-> 0]>>]}

\* handleJob runs through, or getDepositJob throws an error of the KV
SchedulerFaults == {NoFault, [kind |-> "stop", at |-> "get"]}

\* kv.scan(pattern): the keys of the ticker that hold a Job
scanKeys(ticker) ==
  SelectSeq([i \in 1..Len(SchedulerPaymentIds) |-> <<ticker, SchedulerPaymentIds[i]>>],
            LAMBDA k : jobs[k].exists)

\* loop, first line: return when stopped, else start the tick
LoopStart ==
  /\ sched.phase = "sleeping"
  /\ ~sched.exited
  /\ sched.ticks < MaxTicks
  /\ sched' = IF ~sched.running
              THEN [sched EXCEPT !.exited = TRUE]
              ELSE [sched EXCEPT !.phase = "ticker", !.ti = 1, !.queue = <<>>,
                                 !.handled = <<>>, !.entered = {},
                                 !.ticks = @ + 1]
  /\ last' = [IdleLast EXCEPT !.op = "loop"]
  /\ UNCHANGED <<countHashes, config, now, jobs, status, seen, backoffUntil, hist,
                 calc, cons, inst, intake>>

\* loop, for (const tickerRaw of config.tickers): skip the ticker in its
\* backoff window, else scan its keys; setTimeout(loop) after the last one
LoopTicker ==
  /\ sched.phase = "ticker"
  /\ sched' = IF sched.ti > Len(SchedulerTickers)
              THEN [sched EXCEPT !.phase = "sleeping", !.ti = 0]
              ELSE IF backoffUntil[Watcher][SchedulerTickers[sched.ti]] > now
              THEN [sched EXCEPT !.ti = @ + 1]
              ELSE [sched EXCEPT !.phase = "keys",
                                 !.queue = scanKeys(SchedulerTickers[sched.ti]),
                                 !.entered = @ \cup {SchedulerTickers[sched.ti]}]
  /\ last' = [IdleLast EXCEPT !.op = "ticker"]
  /\ UNCHANGED <<countHashes, config, now, jobs, status, seen, backoffUntil, hist,
                 calc, cons, inst, intake>>

\* the function returned by startDepositWatcher: state.running = false
StopWatcher ==
  /\ sched.running
  /\ sched' = [sched EXCEPT !.running = FALSE, !.stopAt = Len(sched.handled),
                            !.stopPhase = sched.phase]
  /\ last' = [IdleLast EXCEPT !.op = "stop"]
  /\ UNCHANGED <<countHashes, config, now, jobs, status, seen, backoffUntil, hist,
                 calc, cons, inst, intake>>

\* time passes; no key of this specification reaches its TTL
SchedulerClock ==
  /\ now < MaxTime
  /\ Interruptible
  /\ inst' = Interrupted
  /\ now' = now + 1
  /\ last' = [IdleLast EXCEPT !.op = "tick"]
  /\ UNCHANGED <<countHashes, config, jobs, status, seen, backoffUntil, hist, calc,
                 sched, intake, cons>>

\* Jobs created by the intake for every key, before the loop's first tick
InitScheduler ==
  /\ countHashes = FALSE
  /\ config = SchedulerConfig
  /\ now = 1
  /\ jobs = [k \in SchedulerKeys |->
               createDepositJob(NoJob, k[2], "A", SchedulerConfig.minConfirmations[k[1]],
                                SchedulerConfig.jobTtlSeconds, 1)]
  /\ status = [k \in SchedulerKeys |->
                 [NoStatus EXCEPT !.status = "PENDING", !.confirmations = 0,
                                  !.paymentId = k[2]]]
  /\ seen = [h \in Hashes |-> 0]
  /\ backoffUntil = [i \in Instances |-> [t \in SchedulerTickerSet |-> 0]]
  /\ okCount = [k \in SchedulerKeys |-> 0]
  /\ okHash = [k \in SchedulerKeys |-> ""]
  /\ hashOk = [h \in Hashes |-> 0]
  /\ recentOk = [h \in Hashes |-> 0]
  /\ recentFail = [h \in Hashes |-> 0]
  /\ crashed = FALSE
  /\ last = IdleLast
  /\ cons = [k \in SchedulerKeys |-> NoCons]
  /\ calc = NoCalc
  /\ sched = NoSched
  /\ inst = NoInst
  /\ intake = NoIntake

\* ------------------------------------------------------------------------
\* processTickerJobs: handleJob as a call and its settling.  sched.phase is
\* the place of the loop; sched.inflight records the keys whose handleJob
\* promise is pending
\* ------------------------------------------------------------------------
\* handleJob(...) without await: the for-loop over the keys goes on
calledWithoutAwait == "keys"

\* await handleJob(...): the for-loop over the keys stands at the call until
\* its promise settles
awaitHandleJob == "handling"

\* processTickerJobs, for (const key of keys): handleJob(kv, key, ...) called
LoopKeyCall ==
  /\ sched.phase = "keys"
  /\ sched.queue # <<>>
  /\ sched' = [sched EXCEPT !.phase = awaitHandleJob,
                            !.queue = Tail(@),
                            !.inflight = @ \cup {Head(sched.queue)}]
  /\ inst' = [inst EXCEPT ![Watcher] = Invoked(Head(sched.queue))]
  /\ last' = [IdleLast EXCEPT !.op = "call", !.key = Head(sched.queue)]
  /\ UNCHANGED <<countHashes, config, now, jobs, status, seen, backoffUntil, hist,
                 calc, cons, intake>>

\* the pending handleJob goes on for one await; when it settles, an RpcError
\* ends the ticker and sets its backoff in loop
LoopKeySettle(k, rpc, fault) ==
  /\ k \in sched.inflight
  /\ inst[Watcher].busy
  /\ inst[Watcher].key = k
  /\ fault.kind # "none" => fault.at = NextAwait
  /\ \E r \in {resumeJob(inst[Watcher].c, jobs[k], status[k], seen, now, rpc, 200, 0,
                          fault)} :
       /\ Pass(Watcher, k, inst[Watcher].c, r, fault)
       /\ sched' = IF r.paused THEN sched
                   ELSE IF rethrows(r.raised)
                   THEN [sched EXCEPT !.phase = "ticker", !.ti = @ + 1,
                                      !.queue = <<>>,
                                      !.handled = Append(@, <<k, r.raised>>),
                                      !.inflight = @ \ {k}]
                   ELSE [sched EXCEPT !.phase = "keys",
                                      !.handled = Append(@, <<k, r.raised>>),
                                      !.inflight = @ \ {k}]

\* getDepositJob throws an error of the KV, or the call runs on
SchedulerFaultInputs == IF NextAwait = "get" THEN SchedulerFaults ELSE {NoFault}

LoopKeySettleStep ==
  \E k \in SchedulerKeys, rpc \in RpcInputs(Watcher, SchedulerWalletResponses),
     f \in SchedulerFaultInputs :
    LoopKeySettle(k, rpc, f)

\* processTickerJobs returns after the last key
LoopKeysDone ==
  /\ sched.phase = "keys"
  /\ sched.queue = <<>>
  /\ sched' = [sched EXCEPT !.phase = "ticker", !.ti = @ + 1]
  /\ last' = [IdleLast EXCEPT !.op = "scanned"]
  /\ UNCHANGED <<countHashes, config, now, jobs, status, seen, backoffUntil, hist,
                 calc, cons, inst, intake>>

NextScheduler ==
  \/ LoopStart \/ LoopTicker \/ LoopKeyCall \/ LoopKeySettleStep \/ LoopKeysDone
  \/ StopWatcher \/ SchedulerClock

SpecScheduler == InitScheduler /\ [][NextScheduler]_vars

\* ------------------------------------------------------------------------
\* Two watcher processes on the same key prefix: the awaits of their passes
\* interleave, each KV call acts on the KV as the other process left it
\* ------------------------------------------------------------------------
\* the wallet fails at get_payments, or answers with the chain at its first
\* height
InstanceWalletResponses ==
  {RpcFailure(FALSE, TRUE)}
  \cup {r \in WalletResponses :
          ~r.infoError /\ ~r.paymentsError /\ r.current_height = 1}

InstancePassStep ==
  \E i \in Instances : PassStepOf(i, InstanceWalletResponses, WebhookResponses)

\* Date.now and the TTLs of the KV go on between the awaits of both processes
NextInstances == InstancePassStep \/ Tick

SpecInstances == InitCreated /\ [][NextInstances]_vars

\* ------------------------------------------------------------------------
\* The Matcher over every answer of the wallet: get_payments lists and, for
\* get_recent_txs_and_info2, transfers whose subtransfers are a base-coin
\* leg, an asset leg and an outgoing asset leg in any order
\* ------------------------------------------------------------------------
AssetId == "AID"
AssetInputs == {"", AssetId}

\* the legs of a transfer; the base-coin leg carries 100, the asset legs 600
Subtransfers ==
  {[is_income |-> TRUE, asset_id |-> "", amount |-> 100],
   [is_income |-> TRUE, asset_id |-> AssetId, amount |-> 600],
   [is_income |-> FALSE, asset_id |-> AssetId, amount |-> 600]}

\* a transfer lists a leg once
SubtransferLists ==
  {l \in UNION {[1..n -> Subtransfers] : n \in 0..Cardinality(Subtransfers)} :
     \A i, j \in 1..Len(l) : i # j => l[i] # l[j]}

RecentTransfers ==
  [tx_hash : {"H1"}, payment_id : {"p1", "p2"}, height : {1},
   subtransfers : SubtransferLists]

TransferLists == UNION {[1..n -> RecentTransfers] : n \in 0..MaxTransfers}

MatcherResponses ==
  [infoError : {FALSE}, paymentsError : {FALSE}, recentError : BOOLEAN,
   statusApi : {"off"}, statusDeposits : {<<>>},
   current_height : 1..MaxHeight, payments : PaymentLists,
   transfers : TransferLists]

InitFetchViaRpc ==
  /\ StartWith(DefaultConfig)
  /\ countHashes = FALSE
  /\ calc \in [fn : {""}, rpc : MatcherResponses, paymentId : {"p1"},
                expectedAssetId : AssetInputs,
                result : {[raise |-> FALSE, deposits |-> <<>>, calls |-> <<>>]}]
  /\ sched = NoSched
  /\ inst = NoInst
  /\ intake = NoIntake

NextFetchViaRpc == ApplyFetchViaRpc

SpecFetchViaRpc == InitFetchViaRpc /\ [][NextFetchViaRpc]_vars

\* ------------------------------------------------------------------------
\* fetchViaRpc over get_payments answers that list a transaction more than
\* once, with block heights on either side of the wallet's height (0: not
\* mined or unknown) and a confirmations field of their own
\* ------------------------------------------------------------------------
RepeatedPayments ==
  [tx_hash : Hashes, amount : Amounts, block_height : 0..MaxHeight,
   confirmations : {0, 2}]

RepeatedPaymentLists ==
  {l \in UNION {[1..n -> RepeatedPayments] : n \in 0..(MaxPayments + 1)} :
     \A i \in 1..Len(l) : l[i].amount = AmountOf[l[i].tx_hash]}

RepeatedPaymentResponses ==
  [infoError : {FALSE}, paymentsError : {FALSE}, recentError : {FALSE},
   statusApi : {"off"}, statusDeposits : {<<>>},
   current_height : 0..MaxHeight, payments : RepeatedPaymentLists,
   transfers : {<<>>}]

InitRepeatedPayments ==
  /\ StartWith(DefaultConfig)
  /\ countHashes = FALSE
  /\ calc \in [fn : {""}, rpc : RepeatedPaymentResponses, paymentId : {"p1"},
                expectedAssetId : {""},
                result : {[raise |-> FALSE, deposits |-> <<>>, calls |-> <<>>]}]
  /\ sched = NoSched
  /\ inst = NoInst
  /\ intake = NoIntake

SpecRepeatedPayments == InitRepeatedPayments /\ [][ApplyFetchViaRpc]_vars

\* ------------------------------------------------------------------------
\* formatAtomicAmount over every integer up to MaxAtomic of either sign, the
\* values that are no integer, and one more decimal place than MaxDecimals
\* ------------------------------------------------------------------------
FormatInputs ==
  [kind : {"integer"}, n : (-MaxAtomic)..MaxAtomic]
  \cup [kind : {"nonfinite", "absent"}, n : {0}]

InitFormatAtomic ==
  /\ StartWith(DefaultConfig)
  /\ countHashes = FALSE
  /\ calc \in [fn : {""}, value : FormatInputs, decimals : 0..(MaxDecimals + 1),
                result : {NullString}]
  /\ sched = NoSched
  /\ inst = NoInst
  /\ intake = NoIntake

NextFormatAtomic == ApplyFormatAtomicAmount

SpecFormatAtomic == InitFormatAtomic /\ [][NextFormatAtomic]_vars

\* the dynamic confirmation tiers over every amount and decimals of the bounds
InitDynamicMinConf ==
  /\ StartWith(DefaultConfig)
  /\ countHashes = FALSE
  /\ calc \in [fn : {""}, amountAtomic : 0..MaxAtomic, decimals : 0..MaxDecimals,
                result : {0}]
  /\ sched = NoSched
  /\ inst = NoInst
  /\ intake = NoIntake

NextDynamicMinConf == ApplyDynamicMinConf

SpecDynamicMinConf == InitDynamicMinConf /\ [][NextDynamicMinConf]_vars

\* Intake and the watcher, whose process may stop (and restart) inside a pass
NextCrash == PassStep \/ CrashedPassStep \/ Tick

SpecCrash == InitCreated /\ [][NextCrash]_vars

\* the wallet answers without error, with the chain at its last height
CountingWalletResponses ==
  {r \in WalletResponses :
     ~r.infoError /\ ~r.paymentsError /\ r.current_height = MaxHeight}

CountingPassStep == PassStepWith(CountingWalletResponses, WebhookResponses)

NextCounting == CreateStep \/ CountingPassStep \/ Tick

\* the main specification with the histories per hash
SpecCounting == InitCounting /\ [][NextCounting]_vars

\* the intake with its callback endpoint next to the watcher, the wallet
\* answering as above
NextCallback == CreateStep \/ CallbackStep \/ CountingPassStep \/ Tick

SpecCallback == Init /\ [][NextCallback]_vars

\* ------------------------------------------------------------------------
\* Properties
\* ------------------------------------------------------------------------
OpsAt(name) == {i \in 1..Len(last.ops) : last.ops[i] = name}

\* the position of the first operation of that name in the pass, 0 if none
FirstAt(ops, name) ==
  IF \E i \in 1..Len(ops) : ops[i] = name
  THEN CHOOSE i \in 1..Len(ops) :
         ops[i] = name /\ \A j \in 1..(i - 1) : ops[j] # name
  ELSE 0

\* The steps of a pass.  handleJob runs from await to await, so what a pass
\* does to the KV is stated for the step that performs the call, on the KV as
\* it is at that step; the locals of handleJob before the step are in Flight,
\* and the Job as the pass loaded it is in Flight.loaded (last.loaded at the
\* end of the pass).
Flight == inst[Watcher].c

\* the step taken is the one of the pass over k in which the call `name`
\* has reached the KV, the wallet or the merchant
Performs(k, name) ==
  /\ last'.key = k /\ last'.step = name
  /\ \/ /\ last'.op = "await"
        /\ \E i \in 1..Len(inst'[Watcher].c.ops) : inst'[Watcher].c.ops[i] = name
     \/ /\ last'.op = "pass"
        /\ \E i \in 1..Len(last'.ops) : last'.ops[i] = name

\* the step taken ends the pass over k
Ends(k) == last'.op = "pass" /\ last'.key = k

\* the pass that ends has made the call `name`
Did(name) == \E i \in 1..Len(last'.ops) : last'.ops[i] = name

\* the pass that ends has made the call a, and the call b after it
DidInOrder(a, b) ==
  /\ FirstAt(last'.ops, a) > 0
  /\ FirstAt(last'.ops, a) < FirstAt(last'.ops, b)

\* markSeen at `name` leaves the Seen entry of the confirmed hash, with the
\* Seen TTL from the time of the call
MarksSeen(k, name) ==
  Performs(k, name)
    => seen'[Flight.confirmed.hash] = now + config.seenTtlSeconds

\* deleteDepositJob at `name` leaves no Job under the key
DeletesJob(k, name) == Performs(k, name) => ~jobs'[k].exists

\* saveStatus at `name` leaves a Status of that name for the observation dep
SavesStatus(k, name, statusName, dep) ==
  Performs(k, name)
    => /\ status'[k].status = statusName
       /\ status'[k].hash = dep.hash
       /\ status'[k].confirmations = dep.confirmations
       /\ status'[k].requiredConfirmations = Flight.minConfirmations
Terminal == {"COMPLETED", "FAILED"}
Rank(s) == IF s = "NONE" THEN 0
           ELSE IF s = "PENDING" THEN 1
           ELSE IF s = "CONFIRMING" THEN 2
           ELSE 3

\* C1: with a reliable KV and no process stop, a Job's webhook receives at
\* most one 2xx response, whatever the wallet and the merchant answer.
AtMostOneAcceptedPerJob == \A k \in Keys : okCount[k] <= 1

\* a pass has just had its webhook accepted
AcceptedOnce ==
  \E k \in Keys : okCount[k] = 1 /\ last.op = "pass" /\ last.key = k
                   /\ last.response = 200 /\ OpsAt("send") # {}

\* C2: for a hash H at most one webhook carrying H is ever accepted, also
\* when Intake creates the Job again after it completed.
AtMostOneAcceptedPerHash == \A h \in Hashes : hashOk[h] <= 1

\* C3 as stated: the pass that loads a Job whose webhookSent is set does not
\* dispatch, writes Seen for the accepted hash and deletes the Job.
SentJobCleanedByNextPass ==
  [][\A k \in Keys :
       (Ends(k) /\ last'.sentBefore /\ last'.raised = "")
         => /\ last'.response = NoVal
            /\ ~Did("send")
            /\ DidInOrder("markSeen", "del")]_vars

\* C3: the pass that loads a Job whose webhookSent is set never dispatches.
\* When its Matcher returns a confirmed observation whose hash is not Seen
\* yet, it writes Seen for that hash and then deletes the Job (each call
\* taking effect in its step); when the Matcher returns none, it writes no
\* Seen entry and does not delete the Job.
SentJobNeverDispatchedAgain ==
  [][\A k \in Keys :
       /\ (Ends(k) /\ last'.sentBefore)
            => /\ last'.response = NoVal
               /\ ~Did("send")
       /\ (Ends(k) /\ last'.sentBefore /\ last'.raised = "")
            => IF last'.hash # "" /\ ~last'.seenBefore
               THEN DidInOrder("markSeen", "del")
               ELSE ~Did("markSeen") /\ ~Did("del")
       /\ Flight.loaded.webhookSent
            => MarksSeen(k, "markSeen") /\ DeletesJob(k, "del")]_vars

\* a pass over a Job left with webhookSent set has written Seen and deleted it
SentJobCleaned ==
  /\ crashed /\ last.op = "pass" /\ last.sentBefore /\ last.hash # ""
  /\ last.raised = ""
  /\ OpsAt("markSeen") # {} /\ OpsAt("del") # {}
  /\ ~jobs[last.key].exists /\ seen[last.hash] > 0

\* C4: in every pass the Seen lookup comes before the payload and before any
\* dispatch; when the entry exists the Job is deleted and nothing is
\* dispatched.  Step by step: a lookup that finds the entry in the KV is
\* followed by the deletion of the Job and by nothing else, and that deletion
\* removes the key.
SeenLookupFirst ==
  [][\A k \in Keys :
       /\ Ends(k)
          => /\ Did("payload") => DidInOrder("isSeen", "payload")
             /\ Did("send") => DidInOrder("isSeen", "send")
             /\ last'.seenBefore
                  => /\ ~Did("payload") /\ ~Did("send")
                     /\ last'.response = NoVal
                     /\ last'.ops[Len(last'.ops)] = "del.seen"
       /\ ( /\ Performs(k, "isSeen")
            /\ seen[Flight.confirmed.hash] > 0 )
          => /\ last'.op = "await"
             /\ inst'[Watcher].c.next = "del.seen"
       /\ DeletesJob(k, "del.seen")]_vars

\* a pass has found the Seen entry of the hash it confirmed
SeenGuardHit ==
  last.op = "pass" /\ last.seenBefore /\ OpsAt("del.seen") # {}
  /\ ~jobs[last.key].exists

\* C5: once a webhook for a Job has received a 2xx response, the Job is
\* deleted and Seen[hash] is set at the latest by the end of one additional
\* pass over that Job: a pass that ends without error after the 2xx has
\* written Seen and deleted the Job, or has found Seen and deleted the Job.
\* A pass that stops between the 2xx and the webhookSent write leaves a Job
\* that the next pass dispatches again, and keeps when the merchant refuses.
CleanedWithinOneMorePass ==
  [][\A k \in Keys :
       /\ (Ends(k) /\ last'.response = 200 /\ last'.raised = "")
            => DidInOrder("markSeen", "del")
       /\ (Ends(k) /\ last'.okBefore /\ last'.raised = "")
            => \/ DidInOrder("markSeen", "del")
               \/ last'.seenBefore /\ Did("del.seen")
       /\ MarksSeen(k, "markSeen")
       /\ DeletesJob(k, "del") /\ DeletesJob(k, "del.seen")]_vars

\* C6: a Seen entry for hash H exists if and only if some webhook whose
\* payload hash is H was accepted with a 2xx response within the Seen TTL.
\* Read between the passes: Seen[H] exists only if a webhook carrying H was
\* accepted, and it exists when one was accepted within the Seen TTL.  The
\* pass that gives a Job up at the end of its retry window writes Seen[H]
\* although no webhook was accepted.
SeenIffAccepted ==
  \A h \in Hashes :
    /\ seen[h] > 0 => hashOk[h] > 0
    /\ recentOk[h] > 0 /\ ~inst[Watcher].busy => seen[h] > 0

\* C7: when no Job exists for a key but a Status does, the Status is
\* COMPLETED or FAILED.
NoJobMeansTerminal ==
  \A k \in Keys :
    ~jobs[k].exists /\ status[k].status # "NONE" => status[k].status \in Terminal

\* C8: the Status of a key only moves forward along PENDING, CONFIRMING,
\* COMPLETED | FAILED: no pass, Create or Callback taken while the Job exists
\* moves it back, so a COMPLETED or FAILED Status is never overwritten with
\* PENDING or CONFIRMING.
StatusOnlyForward ==
  [][\A k \in Keys :
       jobs[k].exists /\ jobs'[k].exists
         => Rank(status'[k].status) >= Rank(status[k].status)]_vars

\* C9: across the Status writes of the passes over one Job that carry the
\* same hash, confirmations never decrease.
StatusWrites ==
  {"status.below", "status.pre", "status.failed", "status.completed", "status.post"}

ConfirmationsNeverDecrease ==
  [][\A k \in Keys :
       ( /\ \E name \in StatusWrites : Performs(k, name)
         /\ jobs[k].exists /\ status[k].status = "CONFIRMING"
         /\ status[k].hash # "" /\ status'[k].hash = status[k].hash )
       => status'[k].confirmations >= status[k].confirmations]_vars

\* C10: while a Job exists dynamicMinConfApplied never goes back to false,
\* and a step of a pass changes the persisted minConf only when it is the
\* write of the dynamic policy, made for a Job whose latch was not set, and
\* that write sets the latch.
DynamicMinConfOnce ==
  [][\A k \in Keys :
       jobs[k].exists /\ jobs'[k].exists
         => /\ jobs[k].dynamicMinConfApplied => jobs'[k].dynamicMinConfApplied
            /\ ( /\ last'.op \in {"await", "pass"} /\ last'.key = k
                 /\ last'.step # ""
                 /\ jobs'[k].minConf # jobs[k].minConf )
                 => /\ Performs(k, "hset.minConf")
                    /\ ~Flight.loaded.dynamicMinConfApplied
                    /\ ~jobs[k].dynamicMinConfApplied
                    /\ jobs'[k].dynamicMinConfApplied]_vars

\* a pass over a Job whose policy was already applied has confirmed a deposit
\* and left minConf alone
DynamicAppliedEarlier ==
  \E k \in Keys :
    /\ jobs[k].exists /\ jobs[k].dynamicMinConfApplied
    /\ last.loaded.dynamicMinConfApplied
    /\ jobs[k].minConf # config.minConfirmations[k[1]]
    /\ last.op = "pass" /\ last.key = k /\ last.hash # ""
    /\ OpsAt("hset.minConf") = {}

\* ------------------------------------------------------------------------
\* C12: computeDynamicMinConfirmations(a, d) is 1 when a < 50*10^d, 3 when
\* 50*10^d <= a < 100*10^d and 6 when a >= 100*10^d, and nothing else, for
\* every amount and decimals of the bounds.
\* ------------------------------------------------------------------------
DynamicMinConfTiers ==
  calc.fn = "computeDynamicMinConfirmations" =>
    LET a == calc.amountAtomic
        s == Pow(10, calc.decimals)
    IN /\ calc.result \in {1, 3, 6}
       /\ calc.result = 1 <=> a < 50 * s
       /\ calc.result = 3 <=> (50 * s <= a /\ a < 100 * s)
       /\ calc.result = 6 <=> a >= 100 * s

\* the function applied at the lower breakpoint of one decimal
DynamicMinConfAtBreakpoint ==
  /\ calc.fn = "computeDynamicMinConfirmations"
  /\ calc.decimals = 1
  /\ calc.amountAtomic = 500
  /\ calc.result = 3

\* ------------------------------------------------------------------------
\* C13: a pass that reaches the budget check with webhookFirstAttemptAt set
\* and now - webhookFirstAttemptAt > maxRetryWindowMs writes Status FAILED,
\* sets Seen[hash], deletes the Job and dispatches no webhook; with the Job
\* gone, no pass handles that Job afterwards.
\* ------------------------------------------------------------------------
WindowExceededFailsJob ==
  [][\A k \in Keys :
       \* the pass: `now` is the clock read at the budget check
       /\ ( /\ Ends(k) /\ Did("status.pre")
            /\ last'.loaded.webhookFirstAttemptAt # 0
            /\ last'.now - last'.loaded.webhookFirstAttemptAt
                 > config.webhookMaxRetryWindowMs )
          => /\ DidInOrder("status.failed", "markSeen.failed")
             /\ DidInOrder("markSeen.failed", "del.failed")
             /\ last'.ops[Len(last'.ops)] = "del.failed"
             /\ ~Did("send")
             /\ last'.response = NoVal
       \* its calls, each in its step
       /\ SavesStatus(k, "status.failed", "FAILED", Flight.confirmed)
       /\ MarksSeen(k, "markSeen.failed")
       /\ DeletesJob(k, "del.failed")
       \* handleJob is called for a key that holds a Job
       /\ (last'.op = "scan" /\ last'.key = k) => jobs[k].exists]_vars

\* a pass has found the retry window over and failed the Job
WindowExceededPass ==
  /\ last.op = "pass"
  /\ OpsAt("del.failed") # {}
  /\ status[last.key].status = "FAILED"
  /\ ~jobs[last.key].exists
  /\ seen[last.hash] > now
  /\ last.response = NoVal

\* ------------------------------------------------------------------------
\* C15: with base 1, factor 2 and jitter off (DefaultConfig, one unit of
\* time standing for one second), the first failed attempt made at T leaves
\* webhookNextAttemptAt = T + 1 and the second failed attempt leaves it two
\* units after that attempt; an attempt answered 2xx ends with Status
\* COMPLETED.
\* ------------------------------------------------------------------------
BackoffStartsAtBase ==
  \A k \in Keys :
    /\ jobs[k].exists /\ jobs[k].webhookAttempts = 1
          => jobs[k].webhookNextAttemptAt
               = jobs[k].webhookLastAttemptAt + config.webhookBackoffBaseMs
    /\ jobs[k].exists /\ jobs[k].webhookAttempts = 2
          => jobs[k].webhookNextAttemptAt
               = jobs[k].webhookLastAttemptAt
                   + config.webhookBackoffBaseMs * config.webhookBackoffFactor
    /\ last.op = "pass" /\ last.key = k /\ last.response = 200
          => OpsAt("status.completed") # {}

\* ------------------------------------------------------------------------
\* C14: a pass that reaches the budget check of a Job whose webhookAttempts
\* has reached a positive maxAttempts dispatches nothing.  As stated, the
\* pass also ends the Job in Status FAILED whatever the retry window
\* (MaxAttemptsFailsJob).  What the watcher does: inside the retry window it
\* keeps the Job with its retry fields and leaves the Status CONFIRMING; the
\* Job fails, with its last error, only once the retry window is over
\* (MaxAttemptsHoldsJob).
\* ------------------------------------------------------------------------
\* the pass that ends has reached the budget check with the attempt
\* ceiling reached
CeilingReached(k) ==
  /\ Ends(k) /\ Did("status.pre")
  /\ config.webhookMaxAttempts > 0
  /\ last'.loaded.webhookAttempts >= config.webhookMaxAttempts

\* the calls by which a pass changes the Job or writes Seen
JobWrites ==
  {"hset.paymentId", "hset.minConf", "hset.sent", "hset.retry", "markSeen",
   "markSeen.failed", "del", "del.seen", "del.failed", "del.malformed"}

\* the trace ops holds no write of the Job, the Status or Seen but those allowed
NoWriteBut(ops, allowed) ==
  \A i \in 1..Len(ops) : ops[i] \notin (JobWrites \cup StatusWrites) \ allowed

MaxAttemptsFailsJob ==
  [][\A k \in Keys :
       /\ CeilingReached(k)
            => /\ last'.response = NoVal
               /\ DidInOrder("status.failed", "del.failed")
       /\ Performs(k, "status.failed")
            => /\ status'[k].status = "FAILED"
               /\ status'[k].webhookError = Flight.loaded.webhookLastError]_vars

MaxAttemptsHoldsJob ==
  [][\A k \in Keys :
       /\ CeilingReached(k)
            => /\ last'.response = NoVal
               /\ ~Did("send")
               /\ IF last'.now - last'.loaded.webhookFirstAttemptAt
                       > config.webhookMaxRetryWindowMs
                  THEN /\ DidInOrder("status.failed", "markSeen.failed")
                       /\ DidInOrder("markSeen.failed", "del.failed")
                  ELSE /\ last'.ops[Len(last'.ops)] = "status.pre"
                       /\ \A i \in 1..Len(last'.ops) :
                            last'.ops[i] \notin (JobWrites \ {"hset.minConf"})
       /\ SavesStatus(k, "status.pre", "CONFIRMING", Flight.confirmed)
       /\ Performs(k, "status.failed")
            => /\ status'[k].status = "FAILED"
               /\ status'[k].webhookError = Flight.loaded.webhookLastError
       /\ DeletesJob(k, "del.failed")]_vars

\* a pass made after the backoff delay and inside the retry window has
\* found the attempt ceiling reached and kept the Job
MaxAttemptsHeld ==
  /\ last.op = "pass"
  /\ last.ops[Len(last.ops)] = "status.pre"
  /\ last.response = NoVal
  /\ config.webhookMaxAttempts > 0
  /\ last.loaded.webhookAttempts >= config.webhookMaxAttempts
  /\ last.loaded.webhookNextAttemptAt <= last.now
  /\ last.now - last.loaded.webhookFirstAttemptAt <= config.webhookMaxRetryWindowMs
  /\ jobs[last.key].exists
  /\ jobs[last.key].webhookAttempts = last.loaded.webhookAttempts
  /\ status[last.key].status = "CONFIRMING"

\* ------------------------------------------------------------------------
\* C11: for any Job and any sequence of passes, consolidationAttempted goes
\* from false to true at most once and the wallet RPC `transfer` is invoked
\* at most once, whether the first attempt succeeded or failed.
\* ------------------------------------------------------------------------
TransferAtMostOnce ==
  \A k \in Keys : cons[k].transfers <= 1 /\ cons[k].latched <= 1

\* ------------------------------------------------------------------------
\* the consolidation of the pass c failed at the wallet: the catch block ran
\* and the write of the latch in the try block was never reached
TransferFailed(c) ==
  c.consolidationError # "" /\ "hset.consolidated" \notin c.awaited

\* C19: when the consolidation attempt of a Job fails (`transfer` returns an
\* error), the latch is set with
\* the error stored, no later pass invokes `transfer` for the Job, and the
\* deposit still completes: the pass dispatches the webhook unless it was
\* sent, every webhook of the Job carries effectiveAmountAtomic equal to
\* paidAmountAtomic and no fee, and a 2xx answer leaves Status COMPLETED
\* with the same amounts.
\* ------------------------------------------------------------------------
ConsolidationFailureLatched ==
  [][\A k \in Keys :
       LET failedHere == /\ Did("hset.consolidationError")
                         /\ "hset.consolidated" \notin Flight.awaited
           failedBefore == last'.loaded.consolidationError # ""
       IN /\ ( /\ Performs(k, "hset.consolidationError")
               /\ "hset.consolidated" \notin Flight.awaited )
               => /\ \E i \in 1..Len(Flight.ops) : Flight.ops[i] = "transfer"
                  /\ ~Flight.loaded.consolidationAttempted
                  /\ jobs'[k].consolidationAttempted
                  /\ jobs'[k].consolidationError # ""
          /\ Ends(k) /\ failedHere /\ last'.raised = ""
               => /\ DidInOrder("transfer", "hset.consolidationError")
                  /\ ~last'.loaded.webhookSent => last'.response # NoVal
          /\ Ends(k) /\ last'.loaded.consolidationAttempted => ~Did("transfer")
          /\ Ends(k) /\ (failedHere \/ failedBefore) /\ last'.response # NoVal
               => /\ cons'[k].effectiveAmountAtomic = cons'[k].paidAmountAtomic
                  /\ cons'[k].feeAtomic = NoVal
          /\ ( /\ Performs(k, "status.completed")
               /\ TransferFailed(Flight) \/ Flight.loaded.consolidationError # "" )
               => /\ status'[k].status = "COMPLETED"
                  /\ status'[k].effectiveAmountAtomic = status'[k].paidAmountAtomic
                  /\ status'[k].paidAmountAtomic = Flight.confirmed.amountAtomic
                  /\ status'[k].feeAtomic = NoVal]_vars

\* a Job whose only transfer failed had its webhook refused, then accepted
\* on a later pass
FailedConsolidationCompleted ==
  \E k \in Keys :
    /\ cons[k].outcome = "error"
    /\ cons[k].transfers = 1
    /\ cons[k].accepted
    /\ last.op = "pass" /\ last.key = k /\ last.response = 200
    /\ OpsAt("transfer") = {}
    /\ status[k].status = "COMPLETED"
    /\ status[k].effectiveAmountAtomic = status[k].paidAmountAtomic

\* ------------------------------------------------------------------------
\* C20: for a Job whose consolidation transfer succeeded with a configured
\* fee, the accepted webhook (of the same pass or of a later retry pass) and
\* the COMPLETED Status carry feeAtomic = fee and
\* effectiveAmountAtomic = paidAmountAtomic - fee.
\* ------------------------------------------------------------------------
AcceptedWebhookCarriesFee ==
  [][\A k \in Keys :
       LET fee == config.consolidation[k[1]].feeAtomic
       IN /\ ( /\ Ends(k) /\ last'.response = 200
               /\ cons'[k].outcome = "ok" /\ cons'[k].hash = last'.hash )
             => /\ cons'[k].feeAtomic = fee
                /\ cons'[k].effectiveAmountAtomic = cons'[k].paidAmountAtomic - fee
          /\ ( /\ Performs(k, "status.completed")
               /\ cons[k].outcome = "ok" /\ cons[k].hash = Flight.confirmed.hash )
             => /\ status'[k].status = "COMPLETED"
                /\ status'[k].feeAtomic = fee
                /\ status'[k].effectiveAmountAtomic
                     = status'[k].paidAmountAtomic - fee]_vars

\* ------------------------------------------------------------------------
\* C16: error containment of the loop.  A Job that raises RpcError ends its
\* ticker for the tick (no later Job of the ticker is handled in the tick),
\* sets the ticker's backoff deadline to now + errorBackoffMs, and the loop
\* goes on to the next ticker; a ticker at its turn is skipped exactly when
\* its deadline is in the future; a Job that raises another error leaves the
\* backoff alone and the next key of the ticker is handled.
\* ------------------------------------------------------------------------
SchedulerContainsErrors ==
  [][LET t == SchedulerTickers[sched.ti]
         h == sched'.handled
     IN /\ last'.op = "pass" /\ last'.raised = "rpc"
             => /\ backoffUntil'[Watcher][t] = now + config.errorBackoffMs
                /\ sched'.phase = "ticker" /\ sched'.ti = sched.ti + 1
                /\ sched'.queue = <<>>
        /\ last'.op = "pass" /\ last'.raised = "kv"
             => /\ backoffUntil' = backoffUntil
                /\ sched'.phase = "keys" /\ sched'.queue = sched.queue
                /\ sched'.ti = sched.ti
        /\ last'.op = "ticker" /\ sched.ti <= Len(SchedulerTickers)
             => IF backoffUntil[Watcher][t] > now
                THEN sched'.phase = "ticker" /\ sched'.ti = sched.ti + 1
                ELSE sched'.phase = "keys" /\ t \in sched'.entered
        /\ \A i, j \in 1..Len(h) :
             i < j /\ h[i][2] = "rpc" => h[j][1][1] # h[i][1][1]]_vars

\* one tick: the KV fails under zano's first Job, its second Job is handled
\* and raises RpcError, and a Job of fusd is handled after that
ErrorsContainedInTick ==
  /\ Len(sched.handled) >= 3
  /\ sched.handled[1] = <<(<<"zano", "p1">>), "kv">>
  /\ sched.handled[2] = <<(<<"zano", "p2">>), "rpc">>
  /\ sched.handled[3][1][1] = "fusd"
  /\ backoffUntil[Watcher]["zano"] > now
  /\ backoffUntil[Watcher]["fusd"] = 0

\* ------------------------------------------------------------------------
\* C17: after the stop signal is invoked while the tick is handling the
\* Jobs of a ticker, the Job in flight runs to completion and no other Job
\* is handled afterwards.
\* ------------------------------------------------------------------------
StopHandlesNoOtherJob ==
  sched.stopAt # NoVal /\ sched.stopPhase = "handling"
    => Len(sched.handled) <= sched.stopAt + 1

\* ------------------------------------------------------------------------
\* C18: with two watcher processes on the same key prefix, a Job can receive
\* two accepted webhooks (BothInstancesAccepted is reachable).  Each process
\* receives at most one 2xx per Job, so the second 2xx always comes from the
\* other process: at most once holds with one watcher per prefix only.
\* ------------------------------------------------------------------------
OneAcceptedPerInstance ==
  \A k \in Keys, i \in Instances : cons[k].acceptedBy[i] <= 1

\* the same Job has received a 2xx from each of the two processes
BothInstancesAccepted ==
  \E k \in Keys :
    /\ okCount[k] = 2
    /\ \A i \in Instances : cons[k].acceptedBy[i] = 1

\* ------------------------------------------------------------------------
\* C21: a create request without client_reference or for a ticker that is
\* not enabled is answered 400 and writes neither Job nor Status; a request
\* answered 200 has written the Job and a Status PENDING with confirmations
\* 0 under the same (ticker, paymentId).
\* ------------------------------------------------------------------------
CreateRejectsWith400 ==
  [][last'.op = "create" =>
       /\ last'.invalid
            => /\ last'.http = 400
               /\ jobs' = jobs
               /\ status' = status
       /\ last'.http = 200
            => /\ jobs'[last'.key].exists
               /\ jobs'[last'.key].paymentId = last'.key[2]
               /\ status'[last'.key].status = "PENDING"
               /\ status'[last'.key].confirmations = 0
               /\ status'[last'.key].paymentId = last'.key[2]]_vars

\* ------------------------------------------------------------------------
\* C22: a pass in which a KV call fails leaves no partial state: the Job,
\* Status and Seen records of its Job are all as before the pass or all as
\* a complete pass leaves them: a pass that ends with the error of a KV call
\* has written none of them, and a pass that writes Seen has written the
\* Status before.
\* ------------------------------------------------------------------------
NoPartialState ==
  [][\A k \in Keys :
       Ends(k)
       => /\ last'.raised = "kv" => NoWriteBut(last'.ops, {})
          /\ Did("markSeen") => Did("status.completed")]_vars

\* ------------------------------------------------------------------------
\* C23: with an assetId configured, fetchViaRpc never calls get_payments and
\* every observation it returns comes from an income subtransfer of that
\* asset in a transfer carrying the Job's paymentId, so the base-coin leg
\* never contributes an amount; without an assetId, an observation of the
\* fallback comes from an income subtransfer with empty asset_id.
\* ------------------------------------------------------------------------
FromSubtransfer(d, rpc, paymentId, assetId) ==
  \E i \in 1..Len(rpc.transfers) :
    /\ rpc.transfers[i].payment_id = paymentId
    /\ rpc.transfers[i].tx_hash = d.hash
    /\ \E j \in 1..Len(rpc.transfers[i].subtransfers) :
         LET st == rpc.transfers[i].subtransfers[j]
         IN st.is_income /\ st.asset_id = assetId /\ st.amount = d.amountAtomic

Called(method) == \E i \in 1..Len(calc.result.calls) : calc.result.calls[i] = method

MatcherFiltersByAsset ==
  calc.fn = "fetchViaRpc" =>
    /\ calc.expectedAssetId # ""
         => /\ ~Called("get_payments")
            /\ \A n \in 1..Len(calc.result.deposits) :
                 FromSubtransfer(calc.result.deposits[n], calc.rpc, calc.paymentId,
                                 calc.expectedAssetId)
    /\ (calc.expectedAssetId = "" /\ calc.rpc.payments = <<>>)
         => \A n \in 1..Len(calc.result.deposits) :
              FromSubtransfer(calc.result.deposits[n], calc.rpc, calc.paymentId, "")

\* an asset Job matched in a transfer that lists the base-coin leg first
AssetLegMatched ==
  /\ calc.fn = "fetchViaRpc"
  /\ calc.expectedAssetId = AssetId
  /\ Len(calc.rpc.transfers) = 1
  /\ calc.rpc.transfers[1].payment_id = calc.paymentId
  /\ Len(calc.rpc.transfers[1].subtransfers) >= 2
  /\ calc.rpc.transfers[1].subtransfers[1].asset_id = ""
  /\ calc.rpc.transfers[1].subtransfers[1].is_income
  /\ Len(calc.result.deposits) = 1
  /\ calc.result.deposits[1].amountAtomic = 600

\* ------------------------------------------------------------------------
\* C24: formatAtomicAmount returns null for a negative or non-finite input,
\* the bare integer when decimals = 0, and otherwise the fixed-point decimal
\* of the amount with trailing zeros trimmed and no trailing dot.
\* ------------------------------------------------------------------------
IsDigit(ch) == \E i \in 1..10 : DigitChars[i] = ch

\* the number written by a sequence of digits
RECURSIVE NumberOf(_)
NumberOf(str) ==
  IF str = <<>> THEN 0
  ELSE 10 * NumberOf(SubSeq(str, 1, Len(str) - 1))
       + (CHOOSE i \in 0..9 : DigitChars[i + 1] = str[Len(str)])

DotsOf(str) == {i \in 1..Len(str) : str[i] = "."}

\* str is the fixed-point decimal of n with `decimals` places: digits, at
\* most one dot with digits on both sides, no trailing zero after the dot,
\* and the value n / 10^decimals
IsFixedPointOf(str, n, decimals) ==
  /\ str # <<>>
  /\ \A i \in 1..Len(str) : IsDigit(str[i]) \/ str[i] = "."
  /\ Cardinality(DotsOf(str)) <= 1
  /\ IF DotsOf(str) = {}
     THEN NumberOf(str) * Pow(10, decimals) = n
     ELSE LET dot == CHOOSE i \in DotsOf(str) : TRUE
              whole == SubSeq(str, 1, dot - 1)
              frac == SubSeq(str, dot + 1, Len(str))
          IN /\ whole # <<>> /\ frac # <<>>
             /\ Len(frac) <= decimals
             /\ frac[Len(frac)] # "0"
             /\ NumberOf(whole) * Pow(10, decimals)
                  + NumberOf(frac) * Pow(10, decimals - Len(frac)) = n

FormatAtomicContract ==
  calc.fn = "formatAtomicAmount" =>
    /\ (calc.value.kind = "nonfinite" \/ (calc.value.kind = "integer" /\ calc.value.n < 0))
         => calc.result.isNull
    /\ (calc.value.kind = "integer" /\ calc.value.n >= 0)
         => /\ ~calc.result.isNull
            /\ calc.decimals = 0 => calc.result.text = Digits(calc.value.n)
            /\ IsFixedPointOf(calc.result.text, calc.value.n, calc.decimals)

\* ------------------------------------------------------------------------
\* C25: a pass in which the Matcher reports an observation for a Job whose
\* Status is not COMPLETED leaves dynamicMinConfApplied true on the Job, also
\* when the computed tier equals the Job's minConf; and once a pass has
\* written the Status of an observation, no later pass changes minConf.
\* ------------------------------------------------------------------------
DynamicLatchedAtFirstObservation ==
  [][\A k \in Keys :
       /\ ( /\ Ends(k) /\ last'.raised = "" /\ last'.matched
            /\ Did("readStatus.dynamic") /\ Flight.statusValue # "COMPLETED" )
          => last'.loaded.dynamicMinConfApplied \/ Did("hset.minConf")
       /\ ( /\ Performs(k, "hset.minConf")
            /\ status[k].status = "CONFIRMING" /\ status[k].hash # "" )
          => jobs'[k].minConf = Flight.loaded.minConf]_vars

\* ------------------------------------------------------------------------
\* C26: a pass that reaches the attempt check with maxAttempts > 0,
\* webhookAttempts >= maxAttempts and the retry window not exceeded returns
\* without dispatching, does not delete the Job, does not mark Seen, and
\* leaves the Status CONFIRMING.
\* ------------------------------------------------------------------------
MaxAttemptsSkipsDispatch ==
  [][\A k \in Keys :
       ( /\ Ends(k) /\ Did("status.pre")
         /\ config.webhookMaxAttempts > 0
         /\ last'.loaded.webhookAttempts >= config.webhookMaxAttempts
         /\ ~retryWindowExceeded(last'.loaded.webhookFirstAttemptAt, last'.now,
                                 config.webhookMaxRetryWindowMs) )
       => \* the refresh of the Status is the last call of the pass, and it
          \* is a write of CONFIRMING
          /\ \A i \in 1..Len(last'.ops) :
               last'.ops[i] \notin {"send", "markSeen", "markSeen.failed", "del",
                                    "del.failed", "del.seen", "hset.sent",
                                    "hset.retry", "status.failed",
                                    "status.completed", "status.post"}
          /\ last'.response = NoVal
          /\ last'.step = "status.pre"
          /\ status'[k].status = "CONFIRMING"
          /\ jobs'[k] = jobs[k]
          /\ seen' = seen]_vars

\* a pass has found the attempt ceiling reached, inside the retry window and
\* after the backoff deadline, and has returned at once
MaxAttemptsSkipped ==
  /\ last.op = "pass"
  /\ last.step = "status.pre"
  /\ OpsAt("send") = {}
  /\ config.webhookMaxAttempts > 0
  /\ last.loaded.webhookAttempts >= config.webhookMaxAttempts
  /\ last.loaded.webhookNextAttemptAt # 0
  /\ last.now >= last.loaded.webhookNextAttemptAt
  /\ ~retryWindowExceeded(last.loaded.webhookFirstAttemptAt, last.now,
                          config.webhookMaxRetryWindowMs)
  /\ jobs[last.key].exists
  /\ seen[last.hash] = 0
  /\ status[last.key].status = "CONFIRMING"

\* ------------------------------------------------------------------------
\* C27: a pass over a Job whose webhookNextAttemptAt is in the future
\* dispatches no webhook and leaves webhookAttempts, webhookFirstAttemptAt
\* and webhookNextAttemptAt as they are; hence a webhook is dispatched only
\* at or after the deadline recorded by the failed attempt before it.
\* ------------------------------------------------------------------------
BackoffWindowRespected ==
  [][\A k \in Keys :
       \* the pass that loaded the Job with its deadline after the clock of
       \* the pass: no dispatch, no write of the retry fields
       /\ ( /\ Ends(k) /\ last'.raised = ""
            /\ last'.now # 0
            /\ last'.loaded.webhookNextAttemptAt > last'.now )
          => /\ last'.response = NoVal
             /\ \A i \in 1..Len(last'.ops) :
                  last'.ops[i] \notin {"send", "hset.retry", "hset.sent"}
       \* the only steps of a pass that change the three fields of a Job are
       \* the writes after a dispatch
       /\ ( /\ last'.op \in {"await", "pass"} /\ last'.key = k /\ last'.step # ""
            /\ jobs[k].exists /\ jobs'[k].exists
            /\ \/ jobs'[k].webhookAttempts # jobs[k].webhookAttempts
               \/ jobs'[k].webhookFirstAttemptAt # jobs[k].webhookFirstAttemptAt
               \/ jobs'[k].webhookNextAttemptAt # jobs[k].webhookNextAttemptAt )
          => Performs(k, "hset.retry") \/ Performs(k, "hset.sent")
       \* a dispatch is made at or after the deadline
       /\ Performs(k, "send")
            => /\ Flight.now >= Flight.loaded.webhookNextAttemptAt
               /\ now >= Flight.loaded.webhookNextAttemptAt]_vars

\* a pass has reached the backoff check before the deadline and returned
PassInBackoffWindow ==
  /\ last.op = "pass"
  /\ last.step = "status.pre"
  /\ OpsAt("send") = {}
  /\ last.response = NoVal
  /\ last.loaded.webhookAttempts >= 1
  /\ last.loaded.webhookNextAttemptAt > last.now
  /\ jobs[last.key].exists
  /\ jobs[last.key].webhookNextAttemptAt = last.loaded.webhookNextAttemptAt

\* ------------------------------------------------------------------------
\* C28: a dispatch answered with a non-2xx status or with a network error
\* raises nothing out of the pass and sets no ticker backoff.  The pass then
\* writes the retry fields onto the Job and Status CONFIRMING, and ends:
\* webhookAttempts is 1 more than the Job had when the pass loaded it,
\* webhookFirstAttemptAt is kept when it was set and is the time of the
\* attempt otherwise, webhookNextAttemptAt is after the attempt, the stored
\* error has at most 500 characters, and the write leaves every other field
\* of the hash as it is (HSET on a key whose TTL has ended in the meantime
\* makes a hash of the written fields).  Once set, webhookFirstAttemptAt
\* never changes.
\* ------------------------------------------------------------------------
FailedDispatchRecorded ==
  [][\A k \in Keys :
       /\ ( /\ Ends(k)
            /\ last'.response # NoVal
            /\ ~(last'.response >= 200 /\ last'.response < 300) )
          => /\ last'.raised = ""
             /\ backoffUntil' = backoffUntil
             /\ DidInOrder("send", "hset.retry")
             /\ DidInOrder("hset.retry", "status.post")
             /\ last'.ops[Len(last'.ops)] = "status.post"
             /\ \A i \in 1..Len(last'.ops) :
                  last'.ops[i] \notin {"del", "del.seen", "del.failed", "markSeen",
                                       "markSeen.failed", "hset.sent"}
             /\ last'.errorLength > 0
             /\ last'.errorLength <= WebhookErrorMaxLen
       /\ Performs(k, "send") => backoffUntil' = backoffUntil
       /\ Performs(k, "hset.retry")
            => LET attemptAt == Flight.now
                   written == [jobs[k] EXCEPT
                                 !.exists = TRUE,
                                 !.webhookAttempts = Flight.loaded.webhookAttempts + 1,
                                 !.webhookFirstAttemptAt =
                                    IF Flight.loaded.webhookFirstAttemptAt # 0
                                    THEN Flight.loaded.webhookFirstAttemptAt
                                    ELSE attemptAt,
                                 !.webhookLastAttemptAt = attemptAt,
                                 !.webhookNextAttemptAt = jobs'[k].webhookNextAttemptAt,
                                 !.webhookLastError = jobs'[k].webhookLastError]
               IN /\ jobs'[k] = written
                  /\ jobs'[k].webhookNextAttemptAt > attemptAt
                  /\ jobs'[k].webhookLastError # ""
       /\ SavesStatus(k, "status.post", "CONFIRMING", Flight.confirmed)
       /\ (jobs[k].exists /\ jobs'[k].exists /\ jobs[k].webhookFirstAttemptAt # 0)
          => jobs'[k].webhookFirstAttemptAt = jobs[k].webhookFirstAttemptAt]_vars

\* the merchant has answered a retry with an error whose text is cut to the
\* limit; the first attempt's time is kept
FailedRetryRecorded ==
  /\ last.op = "pass"
  /\ last.response = 500
  /\ last.errorLength = WebhookErrorMaxLen
  /\ last.loaded.webhookAttempts = 1
  /\ jobs[last.key].exists
  /\ jobs[last.key].webhookAttempts = 2
  /\ jobs[last.key].webhookFirstAttemptAt = last.loaded.webhookFirstAttemptAt
  /\ jobs[last.key].webhookFirstAttemptAt < last.now
  /\ jobs[last.key].webhookNextAttemptAt > last.now

\* ------------------------------------------------------------------------
\* C29: whenever the status API or a wallet RPC call made while matching a
\* Job (get_wallet_info, get_payments, get_recent_txs_and_info2) is answered
\* with HTTP >= 400 or a JSON-RPC error, the pass ends with an RpcError at the
\* Scheduler, the ticker's backoff is set, and the Job is kept unchanged and
\* not terminated.
\* ------------------------------------------------------------------------
MatchFailureBacksOff(methods) ==
  \A k \in Keys :
    ( /\ last'.op = "pass" /\ last'.key = k
      /\ last'.failedCalls \cap methods # {} )
    => /\ last'.raised = "rpc"
       /\ last'.step = "fetch"
       /\ backoffUntil'[Watcher][k[1]] = now + config.errorBackoffMs
       /\ \A i \in 1..Len(last'.ops) : last'.ops[i] \notin JobWrites \cup StatusWrites
       /\ jobs' = jobs /\ status' = status /\ seen' = seen

AnyMatchFailureBacksOff ==
  [][MatchFailureBacksOff({"status_api", "get_wallet_info", "get_payments",
                           "get_recent_txs_and_info2"})]_vars

\* C29 as the code has it: a failure of get_wallet_info or get_payments ends
\* the pass with an RpcError, sets the ticker's backoff and keeps the Job
\* unchanged; a failure of the status API or of get_recent_txs_and_info2 alone
\* is swallowed: the pass raises nothing and sets no backoff
WalletFailureBacksOff ==
  [][/\ MatchFailureBacksOff({"get_wallet_info", "get_payments"})
     /\ \A k \in Keys :
          ( /\ last'.op = "pass" /\ last'.key = k
            /\ last'.failedCalls # {}
            /\ last'.failedCalls \subseteq {"status_api", "get_recent_txs_and_info2"} )
          => /\ last'.raised = ""
             /\ backoffUntil' = backoffUntil]_vars

\* the status API has failed, the pass has gone on to the wallet, get_payments
\* has failed there and the ticker is in backoff
WalletFailureAfterStatusApi ==
  /\ last.op = "pass"
  /\ last.failedCalls = {"status_api", "get_payments"}
  /\ last.raised = "rpc"
  /\ backoffUntil[Watcher][last.key[1]] > now

\* the status API has failed and the pass has delivered what the wallet shows
StatusApiFailureSwallowed ==
  /\ last.op = "pass"
  /\ last.failedCalls = {"status_api"}
  /\ last.response = 200

\* ------------------------------------------------------------------------
\* C30: within one watcher instance at most one Job is being handled at any
\* time: the Jobs of a ticker are handled one after another, the tickers one
\* after another in the configured order, and a new tick starts only after
\* the previous tick has finished.
\* ------------------------------------------------------------------------
TickerIndex(t) == CHOOSE i \in 1..Len(SchedulerTickers) : SchedulerTickers[i] = t
KeyIndex(id) == CHOOSE i \in 1..Len(SchedulerPaymentIds) : SchedulerPaymentIds[i] = id

OneJobAtATime ==
  [][/\ Cardinality(sched'.inflight) <= 1
     \* the Jobs handled in a tick: tickers in configured order, the Jobs of a
     \* ticker in the order of the scan
     /\ \A i, j \in 1..Len(sched'.handled) :
          i < j =>
            LET a == sched'.handled[i][1]
                b == sched'.handled[j][1]
            IN \/ TickerIndex(a[1]) < TickerIndex(b[1])
               \/ a[1] = b[1] /\ KeyIndex(a[2]) < KeyIndex(b[2])
     \* the pending Job belongs to the ticker the loop is at
     /\ \A k \in sched'.inflight : k[1] = SchedulerTickers[sched'.ti]
     \* a tick starts when the previous one has gone through every ticker
     \* and nothing is pending or left to handle
     /\ (sched'.ticks # sched.ticks)
          => /\ sched.inflight = {} /\ sched.queue = <<>>
             /\ sched.ticks > 0 => sched.ti = 0]_vars

\* the second tick handles a Job of the second ticker after both Jobs of the
\* first ticker have settled
SecondTickerInSecondTick ==
  /\ sched.ticks = 2
  /\ Len(sched.handled) = 2
  /\ sched.inflight = {<<"fusd", "p1">>}

\* ------------------------------------------------------------------------
\* C31: when a loaded Job is malformed (it lacks address, or lacks a
\* paymentId that cannot be backfilled from the Status record), the pass
\* deletes the Job and makes no RPC call, no Status write and no webhook
\* dispatch.
\* ------------------------------------------------------------------------
DeletedAsMalformed(k) ==
  /\ Did("del.malformed")
  /\ NoWriteBut(last'.ops, {"del.malformed"})
  /\ ~last'.queried
  /\ last'.response = NoVal
  /\ last'.raised = ""

\* the paymentId is absent in the loaded Job and the Status record has none
\* to backfill it from
NotBackfilled ==
  /\ last'.loaded.paymentId = ""
  /\ Did("readStatus.backfill") /\ ~Did("hset.paymentId")

NoPaymentIdSkipsSources ==
  [][\A k \in Keys :
       ( /\ Ends(k)
         /\ last'.loaded.address # "" /\ last'.loaded.txId # ""
         /\ NotBackfilled )
       => /\ ~last'.queried
          /\ last'.response = NoVal
          /\ NoWriteBut(last'.ops, {})]_vars

\* ------------------------------------------------------------------------
\* C33: a pass in which the Matcher returns no observation leaves the Job
\* (apart from a backfilled paymentId), the Status and every Seen entry
\* unchanged and dispatches nothing; a Status that was PENDING is PENDING
\* afterwards.  The pass ends with the Matcher's answer; its only write, if
\* any, is the backfill, which sets the paymentId and nothing else.
\* ------------------------------------------------------------------------
NoObservationNoChange ==
  [][\A k \in Keys :
       /\ ( /\ Ends(k) /\ Did("fetch") /\ last'.raised = "" /\ ~last'.matched )
          => /\ NoWriteBut(last'.ops, {"hset.paymentId"})
             /\ last'.ops[Len(last'.ops)] = "fetch"
             /\ last'.response = NoVal
             /\ jobs' = jobs /\ status' = status /\ seen' = seen
       /\ Performs(k, "hset.paymentId")
          => /\ Flight.loaded.paymentId = ""
             /\ jobs'[k] = [jobs[k] EXCEPT !.exists = TRUE,
                                           !.paymentId = Flight.statusPaymentId]
             /\ status' = status /\ seen' = seen]_vars

\* a pass has backfilled the paymentId, asked the wallet and found nothing
NothingObservedAfterBackfill ==
  /\ last.op = "pass"
  /\ last.ops = <<"get", "readStatus.backfill", "hset.paymentId", "fetch">>
  /\ last.loaded.paymentId = ""
  /\ last.queried /\ ~last.matched
  /\ jobs[last.key].paymentId # ""
  /\ status[last.key].status = "PENDING"

\* ------------------------------------------------------------------------
\* C34: when the Matcher returns observations but none has confirmations >=
\* the Job's effective minConf, the pass writes Status CONFIRMING with the
\* confirmations and hash of the highest-confirmation observation and
\* requiredConfirmations = minConf; it dispatches no webhook, marks no Seen
\* entry and does not delete the Job.  The effective minConf is the one of
\* the pass: the loaded Job's, or the dynamic tier the pass has applied.
\* ------------------------------------------------------------------------
BelowThresholdConfirming ==
  [][\A k \in Keys :
       /\ ( /\ Ends(k) /\ last'.raised = "" /\ last'.matched
            /\ last'.best.confirmations < last'.minConfirmations )
          => /\ last'.ops[Len(last'.ops)] = "status.below"
             /\ NoWriteBut(last'.ops, {"hset.minConf", "status.below"})
             /\ last'.response = NoVal
             /\ last'.minConfirmations =
                  IF Did("hset.minConf")
                  THEN computeDynamicMinConfirmations(last'.best.amountAtomic,
                                                      config.decimals[k[1]])
                  ELSE last'.loaded.minConf
       /\ SavesStatus(k, "status.below", "CONFIRMING", Flight.best)
       /\ Performs(k, "status.below") => jobs' = jobs /\ seen' = seen]_vars

\* the pass has seen H2 with one confirmation of the three it needs
SeenBelowThreshold ==
  /\ last.op = "pass"
  /\ last.matched
  /\ last.best = [hash |-> "H2", amountAtomic |-> 600, confirmations |-> 1]
  /\ last.minConfirmations = 3
  /\ last.ops[Len(last.ops)] = "status.below"
  /\ status[last.key].status = "CONFIRMING"
  /\ status[last.key].confirmations = 1

\* ------------------------------------------------------------------------
\* C35: the Matcher's result contains at most one observation per
\* transaction hash, and for each hash it is an entry with the maximum
\* confirmations among the entries returned for that hash.
\* ------------------------------------------------------------------------
\* the confirmations the entries of the answer have for hash h
ConfirmationsFor(h) ==
  {(IF calc.rpc.payments[i].block_height > 0 /\ calc.rpc.current_height > 0
    THEN Max(calc.rpc.current_height - calc.rpc.payments[i].block_height + 1, 0)
    ELSE calc.rpc.payments[i].confirmations) :
     i \in {j \in 1..Len(calc.rpc.payments) : calc.rpc.payments[j].tx_hash = h}}

OneObservationPerHash ==
  calc.fn = "fetchViaRpc"
  => LET d == calc.result.deposits
     IN /\ \A i, j \in 1..Len(d) : i # j => d[i].hash # d[j].hash
        /\ \A i \in 1..Len(d) :
             /\ d[i].confirmations \in ConfirmationsFor(d[i].hash)
             /\ \A n \in ConfirmationsFor(d[i].hash) : n <= d[i].confirmations
        /\ \A h \in Hashes :
             ConfirmationsFor(h) # {} => \E i \in 1..Len(d) : d[i].hash = h

\* the answer lists H1 twice, the second time with more confirmations, and
\* the result has the one entry with the larger number
RepeatedHashMerged ==
  /\ calc.fn = "fetchViaRpc"
  /\ Len(calc.rpc.payments) = 2
  /\ calc.rpc.payments[1].tx_hash = "H1" /\ calc.rpc.payments[2].tx_hash = "H1"
  /\ calc.rpc.current_height = 3
  /\ calc.rpc.payments[1].block_height = 3 /\ calc.rpc.payments[2].block_height = 2
  /\ Len(calc.result.deposits) = 1
  /\ calc.result.deposits[1].confirmations = 2

\* ------------------------------------------------------------------------
\* C36: for a payment with block_height h > 0 and wallet current_height
\* c > 0 the observation's confirmations equal max(c - h + 1, 0) (block 1 at
\* height 3 gives 3); when c is 0 or unknown the confirmations are taken from
\* the payload's own confirmations field.
\* ------------------------------------------------------------------------
ConfirmationsFromHeights ==
  calc.fn = "fetchViaRpc"
  => \A i \in 1..Len(calc.rpc.payments) :
       LET p == calc.rpc.payments[i]
           c == calc.rpc.current_height
           \* p is the only entry of the answer for its transaction
           alone == \A j \in 1..Len(calc.rpc.payments) :
                      j # i => calc.rpc.payments[j].tx_hash # p.tx_hash
       IN alone
          => \E k \in 1..Len(calc.result.deposits) :
               LET d == calc.result.deposits[k]
               IN /\ d.hash = p.tx_hash
                  /\ (p.block_height > 0 /\ c > 0)
                       => d.confirmations
                            = (IF c - p.block_height + 1 > 0
                               THEN c - p.block_height + 1 ELSE 0)
                  /\ c = 0 => d.confirmations = p.confirmations

\* block 1 at height 3 gives 3, although the payload says 0; block 3 at
\* height 1 gives 0
ThreeConfirmationsAtHeightThree ==
  /\ calc.fn = "fetchViaRpc"
  /\ calc.rpc.current_height = 3
  /\ Len(calc.rpc.payments) = 1
  /\ calc.rpc.payments[1].block_height = 1
  /\ calc.rpc.payments[1].confirmations = 0
  /\ calc.result.deposits[1].confirmations = 3

\* ------------------------------------------------------------------------
\* C37: at the end of a pass whose dispatch got 2xx (no failures in between)
\* the Status is COMPLETED with the hash, confirmations and paidAmountAtomic
\* of the dispatched payload and requiredConfirmations equal to the Job's
\* effective minConf in that pass; the COMPLETED write preceded the Seen
\* write and the Job deletion; Seen[hash] is set and the Job is absent.
\* Stated for the writes of the pass: the COMPLETED write carries these
\* values, the Seen write sets Seen[hash] and the deletion, the last step of
\* the pass, removes the Job.
\* ------------------------------------------------------------------------
EffectiveMinConf(k) ==
  IF Did("hset.minConf")
  THEN computeDynamicMinConfirmations(last'.best.amountAtomic, config.decimals[k[1]])
  ELSE last'.loaded.minConf

AcceptedPassCompletes ==
  [][\A k \in Keys :
       /\ ( /\ Ends(k)
            /\ last'.response >= 200 /\ last'.response < 300 )
          => /\ last'.minConfirmations = EffectiveMinConf(k)
             /\ last'.hash = last'.payload.hash
             /\ last'.payload.confirmations >= EffectiveMinConf(k)
             /\ DidInOrder("send", "status.completed")
             /\ DidInOrder("status.completed", "markSeen")
             /\ DidInOrder("markSeen", "del")
             /\ last'.ops[Len(last'.ops)] = "del"
             /\ ~jobs'[k].exists
       /\ Performs(k, "status.completed")
          => /\ status'[k].status = "COMPLETED"
             /\ status'[k].hash = Flight.payload.hash
             /\ status'[k].confirmations = Flight.payload.confirmations
             /\ status'[k].paidAmountAtomic = Flight.payload.amountAtomic
             /\ status'[k].requiredConfirmations = Flight.minConfirmations
       /\ MarksSeen(k, "markSeen")
       /\ DeletesJob(k, "del")]_vars

\* H1 (amount 100, dynamic tier 1) has been accepted at its first
\* confirmation by a Job created with minConf 3
CompletedAtDynamicTier ==
  /\ last.op = "pass"
  /\ last.response = 200
  /\ last.hash = "H1"
  /\ status[last.key].status = "COMPLETED"
  /\ status[last.key].requiredConfirmations = 1
  /\ status[last.key].confirmations = 1
  /\ status[last.key].paidAmountAtomic = 100
  /\ seen["H1"] > 0
  /\ ~jobs[last.key].exists

\* ------------------------------------------------------------------------
\* C38: every webhook the watcher dispatches carries the hash, amount and
\* confirmations of an observation returned by the Matcher in that same pass
\* whose confirmations are >= the Job's effective minConf in that pass (the
\* dynamic tier when the policy is applied in that pass); no webhook is
\* dispatched for a Job whose best observation is below the threshold.
\* ------------------------------------------------------------------------
DispatchCarriesConfirmedObservation ==
  [][\A k \in Keys :
       (last'.op = "pass" /\ last'.key = k)
       => /\ last'.response # NoVal
             => /\ last'.payloadObserved
                /\ last'.payload.hash # ""
                /\ last'.payload.confirmations >= EffectiveMinConf(k)
          /\ (last'.matched /\ last'.best.confirmations < EffectiveMinConf(k))
             => last'.response = NoVal]_vars

\* H1 has been dispatched with the 2 confirmations the wallet showed, at the
\* dynamic tier written in the same pass
BetterObservationDispatched ==
  /\ last.op = "pass"
  /\ last.response = 200
  /\ last.payloadObserved
  /\ last.payload = [hash |-> "H1", amountAtomic |-> 100, confirmations |-> 2]
  /\ \E i \in 1..Len(last.ops) : last.ops[i] = "hset.minConf"

\* ------------------------------------------------------------------------
\* C39: a dispatched webhook reports a non-null feeAtomic or an
\* effectiveAmountAtomic different from paidAmountAtomic only if a
\* consolidation transfer for that Job was submitted to the wallet and
\* succeeded; when the deposit amount is <= the fee (no transfer is sent) or
\* consolidation is disabled, effectiveAmountAtomic = paidAmountAtomic.
\* ------------------------------------------------------------------------
FeeOnlyAfterTransfer ==
  [][\A k \in Keys :
       ( /\ last'.op = "pass" /\ last'.key = k
         /\ last'.response # NoVal
         /\ \/ cons'[k].feeAtomic # NoVal
            \/ cons'[k].effectiveAmountAtomic # cons'[k].paidAmountAtomic )
       => /\ \E i \in 1..Len(last'.ops) : last'.ops[i] = "transfer"
          /\ cons'[k].outcome = "ok"
          /\ cons'[k].paidAmountAtomic > config.consolidation[k[1]].feeAtomic]_vars

\* ------------------------------------------------------------------------
\* C40: with a single watcher whose ticks continue forever, a wallet RPC that
\* keeps answering and reports a deposit whose confirmations eventually reach
\* the Job's effective minConf, and maxRetryWindowMs > 0, every such Job is
\* eventually deleted with a Status of COMPLETED or FAILED, whatever the
\* webhook receiver answers and whatever maxAttempts is.
\* A Job whose key expires while its dispatches fail is gone with its Status
\* CONFIRMING; processTickerJobs scans the Job keys only, so the later
\* iterations of the loop find nothing and the Status stays as it is.
\* ------------------------------------------------------------------------
Settled(k) ==
  ~jobs[k].exists /\ status[k].status \in {"COMPLETED", "FAILED"}

EveryJobSettles ==
  \A k \in Keys : jobs[k].exists ~> Settled(k)

====
